---- MODULE Spec2Model ----
(***************************************************************************)
(* State machine of the smart-spoon meal planner: the application state    *)
(* container (pantry, search results, recipe book, meal plan), the         *)
(* controller handlers that mutate it, and the localStorage records.       *)
(*                                                                         *)
(* Numbers are exact rationals [t |-> "num", n, d] in lowest terms;        *)
(* JavaScript doubles round, so equalities proved here hold in the code up *)
(* to floating-point rounding.  Strings that end up in numeric fields (the *)
(* "-" and "Unavailable" sentinels, and the result of `number + string`)   *)
(* are [t |-> "str", parts |-> <<...>>].                                   *)
(***************************************************************************)
EXTENDS Integers, Sequences, FiniteSets, TLC

\* ---------------------------------------------------------------- bounds
MaxResults == 2      \* recipes a results collection may hold
MaxPending == 2      \* searches in flight per mode
MaxSearches == 2     \* searches the user starts in a session
MaxPlanEntries == 2  \* recipe instances in the whole meal plan
MaxPlanOps == 2      \* additions, moves and removals in the meal plan in a session
MaxAdjust == 1       \* plus/minus clicks in the Recipe Details Modal in a session
MaxToggles == 1      \* bookmark clicks in a session
MaxCustom == 1       \* custom meal entries created in a session

\* ------------------------------------------------------ program constants
RECOMMENDED_PROTEIN_DV == 50
RECOMMENDED_FATS_DV == 275
RECOMMENDED_CARBS_DV == 78
MinServings == 1
MaxServings == 50
NumWeeks == 9
WeekDays == 5

RECIPE_NUTRIENTS ==
  <<"calories", "saturatedFat", "sugar", "fiber", "sodium", "cholesterol", "iron",
    "zinc", "calcium", "magnesium", "protein", "carbs", "fats">>

NutrientNames == {RECIPE_NUTRIENTS[i] : i \in 1..Len(RECIPE_NUTRIENTS)}

COMMON_PANTRY_ITEMS ==
  <<"salt", "table salt", "pepper", "salt and pepper", "salt & pepper", "salt&pepper",
    "black pepper", "ground pepper", "water", "flour", "oil">>

\* Object.entries(INGREDIENT_SYNONYMS), in insertion order
INGREDIENT_SYNONYMS ==
  << [key |-> "cheese", synonyms |-> <<"parmesan", "mozzarella", "cheddar", "feta", "brie",
        "provolone", "gruyere", "gorgonzola", "fontina", "gouda", "burrata", "monterey jack",
        "graviera">>],
     [key |-> "bread", synonyms |-> <<"focaccia", "ciabatta", "sourdough", "baguette", "brioche">>],
     [key |-> "pasta", synonyms |-> <<"spaghetti", "fettuccine", "penne", "rigatoni", "macaroni",
        "lasagna", "ramen", "udon", "soba", "rice noodle">>],
     [key |-> "onion", synonyms |-> <<"shallot">>],
     [key |-> "butter", synonyms |-> <<"margarine">>],
     [key |-> "milk", synonyms |-> <<"soy milk", "almond milk">>] >>

MEAL_SLOTS == <<"breakfast", "lunch", "snacks", "dinner">>

MealNames == {MEAL_SLOTS[i] : i \in 1..Len(MEAL_SLOTS)}

NUTRITION_KEYS == <<"calories", "protein", "carbs", "fats">>

NutritionNames == {NUTRITION_KEYS[i] : i \in 1..Len(NUTRITION_KEYS)}

BrowseSources == {"ingredientSearch", "browseRecipeSearch", "recipeBook"}

\* ------------------------------------------------------ JavaScript values
RECURSIVE GCD(_, _)
GCD(a, b) == IF b = 0 THEN a ELSE GCD(b, a % b)

Abs(x) == IF x < 0 THEN -x ELSE x

\* the rational n/d in lowest terms, d > 0
Rat(n, d) ==
  LET g == GCD(Abs(n), Abs(d))
      s == IF d < 0 THEN -1 ELSE 1
  IN  [t |-> "num", n |-> (s * n) \div g, d |-> (s * d) \div g]

Num(n) == [t |-> "num", n |-> n, d |-> 1]

NaN == [t |-> "nan"]

Lit(s) == [t |-> "lit", s |-> s]

Str(s) == [t |-> "str", parts |-> <<Lit(s)>>]

Dash == Str("-")

Unavailable == Str("Unavailable")

NotApplicable == Str("N/A")

\* Number.isFinite(v)
IsFinite(v) == v.t = "num"

\* the pieces of String(v), for string concatenation
Parts(v) == IF v.t = "str" THEN v.parts ELSE <<v>>

\* a + b : numeric addition, or concatenation as soon as one side is a string
JsAdd(a, b) ==
  IF a.t = "num" /\ b.t = "num" THEN Rat(a.n * b.d + b.n * a.d, a.d * b.d)
  ELSE IF a.t = "str" \/ b.t = "str" THEN [t |-> "str", parts |-> Parts(a) \o Parts(b)]
  ELSE NaN

\* a - b
JsSub(a, b) ==
  IF a.t = "num" /\ b.t = "num" THEN Rat(a.n * b.d - b.n * a.d, a.d * b.d) ELSE NaN

\* a * b
JsMul(a, b) ==
  IF a.t = "num" /\ b.t = "num" THEN Rat(a.n * b.n, a.d * b.d) ELSE NaN

\* a / b  (no modelled value divides by zero: servings and the DV constants are positive)
JsDiv(a, b) ==
  IF a.t = "num" /\ b.t = "num" /\ b.n # 0 THEN Rat(a.n * b.d, a.d * b.n) ELSE NaN

\* a < b ; any comparison with NaN is false
JsLess(a, b) == a.t = "num" /\ b.t = "num" /\ a.n * b.d < b.n * a.d

\* +text, for the text of an <input type="number">
ToNumber(text) ==
  CASE text = "" -> Num(0)
    [] text = "0" -> Num(0)
    [] text = "1" -> Num(1)
    [] text = "2" -> Num(2)
    [] text = "3" -> Num(3)
    [] text = "4" -> Num(4)
    [] text = "5" -> Num(5)
    [] text = "10" -> Num(10)
    [] text = "20" -> Num(20)
    [] text = "250" -> Num(250)
    [] text = "50" -> Num(50)
    [] text = "51" -> Num(51)
    [] text = "60" -> Num(60)
    [] OTHER -> NaN

\* deepCopy(item) == JSON.parse(JSON.stringify(item)): numbers that are not finite come back as
\* null, everything else modelled here (finite numbers, strings, booleans, arrays) is preserved;
\* the result shares no structure with its argument (values carry no identity here).
JsonValue(v) == IF v.t = "nan" THEN [t |-> "null"] ELSE v

JsonIngredient(ing) == [ing EXCEPT !.quantity = JsonValue(ing.quantity)]

\* a recipe's `ingredients` is an array of ingredient objects ([t |-> "arr", items |-> ...]) or,
\* for a custom meal entry, the string "Unavailable"
JsonIngredients(ingredients) ==
  IF ingredients.t = "arr"
    THEN [t |-> "arr",
          items |-> [i \in 1..Len(ingredients.items) |-> JsonIngredient(ingredients.items[i])]]
    ELSE JsonValue(ingredients)

deepCopy(recipe) ==
  [recipe EXCEPT !.servings = JsonValue(recipe.servings),
                 !.ingredients = JsonIngredients(recipe.ingredients),
                 !.nutr = [k \in NutrientNames |-> JsonValue(recipe.nutr[k])],
                 !.percentDVProtein = JsonValue(recipe.percentDVProtein),
                 !.percentDVFats = JsonValue(recipe.percentDVFats),
                 !.percentDVCarbs = JsonValue(recipe.percentDVCarbs),
                 !.numMissingIngredients = JsonValue(recipe.numMissingIngredients)]

\* ------------------------------------------------------------ sequences
\* Array.prototype.findIndex((r) => r.id === id), 1-based; 0 when nothing matches (JavaScript's -1)
RECURSIVE IdIndexFrom(_, _, _)
IdIndexFrom(seq, id, i) ==
  IF i > Len(seq) THEN 0 ELSE IF seq[i].id = id THEN i ELSE IdIndexFrom(seq, id, i + 1)

IdIndex(seq, id) == IdIndexFrom(seq, id, 1)

HasId(seq, id) == IdIndex(seq, id) # 0

\* Array.prototype.splice(index, 1) with a JavaScript index: -1 addresses the last element,
\* and an empty array stays empty
Splice1(seq, jsIndex) ==
  LET k == IF jsIndex < 0 THEN Len(seq) + jsIndex + 1 ELSE jsIndex + 1
  IN  IF k < 1 \/ k > Len(seq) THEN seq
      ELSE [i \in 1..(Len(seq) - 1) |-> IF i < k THEN seq[i] ELSE seq[i + 1]]

\* the ids of a list of recipes, in order
Ids(seq) == [i \in 1..Len(seq) |-> seq[i].id]

RECURSIVE Count(_, _)
Count(seq, id) ==
  IF seq = <<>> THEN 0 ELSE (IF Head(seq).id = id THEN 1 ELSE 0) + Count(Tail(seq), id)

\* --------------------------------------------------------------- strings
\* the characters of each ingredient name the model uses
Chars(s) ==
  CASE s = "salt" -> <<"s", "a", "l", "t">>
    [] s = "table salt" -> <<"t", "a", "b", "l", "e", " ", "s", "a", "l", "t">>
    [] s = "pepper" -> <<"p", "e", "p", "p", "e", "r">>
    [] s = "salt and pepper" -> <<"s", "a", "l", "t", " ", "a", "n", "d", " ", "p", "e", "p", "p", "e", "r">>
    [] s = "salt & pepper" -> <<"s", "a", "l", "t", " ", "&", " ", "p", "e", "p", "p", "e", "r">>
    [] s = "salt&pepper" -> <<"s", "a", "l", "t", "&", "p", "e", "p", "p", "e", "r">>
    [] s = "black pepper" -> <<"b", "l", "a", "c", "k", " ", "p", "e", "p", "p", "e", "r">>
    [] s = "ground pepper" -> <<"g", "r", "o", "u", "n", "d", " ", "p", "e", "p", "p", "e", "r">>
    [] s = "water" -> <<"w", "a", "t", "e", "r">>
    [] s = "flour" -> <<"f", "l", "o", "u", "r">>
    [] s = "oil" -> <<"o", "i", "l">>
    [] s = "cheese" -> <<"c", "h", "e", "e", "s", "e">>
    [] s = "bread" -> <<"b", "r", "e", "a", "d">>
    [] s = "pasta" -> <<"p", "a", "s", "t", "a">>
    [] s = "onion" -> <<"o", "n", "i", "o", "n">>
    [] s = "butter" -> <<"b", "u", "t", "t", "e", "r">>
    [] s = "milk" -> <<"m", "i", "l", "k">>
    [] s = "parmesan" -> <<"p", "a", "r", "m", "e", "s", "a", "n">>
    [] s = "mozzarella" -> <<"m", "o", "z", "z", "a", "r", "e", "l", "l", "a">>
    [] s = "cheddar" -> <<"c", "h", "e", "d", "d", "a", "r">>
    [] s = "feta" -> <<"f", "e", "t", "a">>
    [] s = "brie" -> <<"b", "r", "i", "e">>
    [] s = "provolone" -> <<"p", "r", "o", "v", "o", "l", "o", "n", "e">>
    [] s = "gruyere" -> <<"g", "r", "u", "y", "e", "r", "e">>
    [] s = "gorgonzola" -> <<"g", "o", "r", "g", "o", "n", "z", "o", "l", "a">>
    [] s = "fontina" -> <<"f", "o", "n", "t", "i", "n", "a">>
    [] s = "gouda" -> <<"g", "o", "u", "d", "a">>
    [] s = "burrata" -> <<"b", "u", "r", "r", "a", "t", "a">>
    [] s = "monterey jack" -> <<"m", "o", "n", "t", "e", "r", "e", "y", " ", "j", "a", "c", "k">>
    [] s = "graviera" -> <<"g", "r", "a", "v", "i", "e", "r", "a">>
    [] s = "focaccia" -> <<"f", "o", "c", "a", "c", "c", "i", "a">>
    [] s = "ciabatta" -> <<"c", "i", "a", "b", "a", "t", "t", "a">>
    [] s = "sourdough" -> <<"s", "o", "u", "r", "d", "o", "u", "g", "h">>
    [] s = "baguette" -> <<"b", "a", "g", "u", "e", "t", "t", "e">>
    [] s = "brioche" -> <<"b", "r", "i", "o", "c", "h", "e">>
    [] s = "spaghetti" -> <<"s", "p", "a", "g", "h", "e", "t", "t", "i">>
    [] s = "fettuccine" -> <<"f", "e", "t", "t", "u", "c", "c", "i", "n", "e">>
    [] s = "penne" -> <<"p", "e", "n", "n", "e">>
    [] s = "rigatoni" -> <<"r", "i", "g", "a", "t", "o", "n", "i">>
    [] s = "macaroni" -> <<"m", "a", "c", "a", "r", "o", "n", "i">>
    [] s = "lasagna" -> <<"l", "a", "s", "a", "g", "n", "a">>
    [] s = "ramen" -> <<"r", "a", "m", "e", "n">>
    [] s = "udon" -> <<"u", "d", "o", "n">>
    [] s = "soba" -> <<"s", "o", "b", "a">>
    [] s = "rice noodle" -> <<"r", "i", "c", "e", " ", "n", "o", "o", "d", "l", "e">>
    [] s = "shallot" -> <<"s", "h", "a", "l", "l", "o", "t">>
    [] s = "margarine" -> <<"m", "a", "r", "g", "a", "r", "i", "n", "e">>
    [] s = "soy milk" -> <<"s", "o", "y", " ", "m", "i", "l", "k">>
    [] s = "almond milk" -> <<"a", "l", "m", "o", "n", "d", " ", "m", "i", "l", "k">>
    [] s = "egg" -> <<"e", "g", "g">>
    [] s = "eggs" -> <<"e", "g", "g", "s">>
    [] s = "parmesan cheese" -> <<"p", "a", "r", "m", "e", "s", "a", "n", " ", "c", "h", "e", "e", "s", "e">>
    [] s = "shallots" -> <<"s", "h", "a", "l", "l", "o", "t", "s">>

\* String.prototype.includes
Includes(s, sub) ==
  LET a == Chars(s)
      b == Chars(sub)
  IN  \E k \in 0..(Len(a) - Len(b)) : \A j \in 1..Len(b) : a[k + j] = b[j]

\* normalizeIngredient: pluralize.singular(ingredient.trim().toLowerCase()); every other name
\* used here is already trimmed, lower case and singular
normalizeIngredient(ingredient) ==
  CASE ingredient = "eggs" -> "egg"
    [] ingredient = "Eggs " -> "egg"
    [] ingredient = "shallots" -> "shallot"
    [] OTHER -> ingredient

\* ----------------------------------------------------------------- dates
\* A date string is modelled by its day number; day 0 is a Monday, so every multiple of 7 is.
Today == 30

\* Date.prototype.getDay: Sunday is 0, Monday is 1
getDay(date) == (date + 1) % 7

getMondayOfTheWeek(selectedDate) == selectedDate - getDay(selectedDate) + 1

\* initializeMealPlan's weeksRange
weeksRange == [i \in 1..NumWeeks |-> getMondayOfTheWeek(Today) + ((i - 1) - 4) * 7]

createEmptyMealObj ==
  [meals |-> [m \in MealNames |-> <<>>], nutrition |-> [k \in NutritionNames |-> Num(0)]]

createWeeklyMealPlan(mondayOfWeek) ==
  [day \in {mondayOfWeek + i : i \in 0..(WeekDays - 1)} |-> createEmptyMealObj]

\* ---------------------------------------------------- the recipe service
Undefined == [t |-> "undef"]

Arr(items) == [t |-> "arr", items |-> items]

\* JavaScript truthiness of a modelled value
Truthy(v) ==
  CASE v.t = "undef" -> FALSE
    [] v.t = "null" -> FALSE
    [] v.t = "nan" -> FALSE
    [] v.t = "num" -> v.n # 0
    [] v.t = "str" -> v.parts # <<>>
    [] OTHER -> TRUE

ApiNutrient(name, amount) == [name |-> name, amount |-> Num(amount)]

ApiIngredient(name, amount) == [name |-> name, amount |-> Num(amount)]

\* the name the service gives each nutrient of RECIPE_NUTRIENTS
ApiNutrientName(nutrient) ==
  CASE nutrient = "calories" -> "Calories"
    [] nutrient = "saturatedFat" -> "Saturated Fat"
    [] nutrient = "sugar" -> "Sugar"
    [] nutrient = "fiber" -> "Fiber"
    [] nutrient = "sodium" -> "Sodium"
    [] nutrient = "cholesterol" -> "Cholesterol"
    [] nutrient = "iron" -> "Iron"
    [] nutrient = "zinc" -> "Zinc"
    [] nutrient = "calcium" -> "Calcium"
    [] nutrient = "magnesium" -> "Magnesium"
    [] nutrient = "protein" -> "Protein"
    [] nutrient = "carbs" -> "Carbohydrates"
    [] nutrient = "fats" -> "Fat"

\* The recipes the service can return (informationBulk objects, reduced to the fields the
\* program reads).  Omelette is complete; Soup serves 60 and has no "Calories"
\* nutrient; Untitled has a blank title.
Omelette ==
  [title |-> "Omelette", id |-> Num(1), servings |-> Num(2),
   analyzedInstructions |-> Arr(<<[steps |-> Arr(<<"whisk", "fry">>)]>>),
   extendedIngredients |-> Arr(<<ApiIngredient("eggs", 3), ApiIngredient("flour", 1)>>),
   nutrition |-> [t |-> "obj",
     nutrients |-> <<ApiNutrient("Calories", 400), ApiNutrient("Protein", 30),
                     ApiNutrient("Fat", 11), ApiNutrient("Carbohydrates", 39),
                     ApiNutrient("Sugar", 5)>>,
     caloricBreakdown |-> [percentProtein |-> Num(30), percentFat |-> Num(25), percentCarbs |-> Num(45)]]]

Soup ==
  [title |-> "Soup", id |-> Num(2), servings |-> Num(60),
   analyzedInstructions |-> Arr(<<[steps |-> Arr(<<"boil">>)]>>),
   extendedIngredients |-> Arr(<<ApiIngredient("parmesan cheese", 6), ApiIngredient("milk", 3)>>),
   nutrition |-> [t |-> "obj",
     nutrients |-> <<ApiNutrient("Protein", 8), ApiNutrient("Fat", 4),
                     ApiNutrient("Carbohydrates", 16)>>,
     caloricBreakdown |-> [percentProtein |-> Num(25), percentFat |-> Num(25), percentCarbs |-> Num(50)]]]

Untitled == [Omelette EXCEPT !.title = " ", !.id = Num(3)]

\* the bodies a details request can come back with
Responses == {<<Omelette>>, <<Soup>>, <<Untitled>>, <<Soup, Omelette>>}

\* String.prototype.trim of a title
Trim(title) == IF title = " " THEN "" ELSE title

\* nutrients.find((obj) => obj.name === nutrientName)?.amount
RECURSIVE FindAmount(_, _)
FindAmount(nutrients, nutrientName) ==
  IF nutrients = <<>> THEN Undefined
  ELSE IF Head(nutrients).name = nutrientName THEN Head(nutrients).amount
  ELSE FindAmount(Tail(nutrients), nutrientName)

\* recipe.analyzedInstructions?.[0]?.steps
FirstSteps(recipe) ==
  IF recipe.analyzedInstructions.t = "arr" /\ recipe.analyzedInstructions.items # <<>>
    THEN recipe.analyzedInstructions.items[1].steps
    ELSE Undefined

isValidRecipe(recipe) ==
  /\ Trim(recipe.title) # ""
  /\ IsFinite(recipe.id)
  /\ IsFinite(recipe.servings)
  /\ Truthy(FirstSteps(recipe))
  /\ Truthy(recipe.extendedIngredients)
  /\ Truthy(recipe.nutrition)
  /\ IsFinite(FindAmount(recipe.nutrition.nutrients, "Protein"))
  /\ IsFinite(FindAmount(recipe.nutrition.nutrients, "Fat"))
  /\ IsFinite(FindAmount(recipe.nutrition.nutrients, "Carbohydrates"))
  /\ IsFinite(recipe.nutrition.caloricBreakdown.percentProtein)
  /\ IsFinite(recipe.nutrition.caloricBreakdown.percentFat)
  /\ IsFinite(recipe.nutrition.caloricBreakdown.percentCarbs)

getNutrientValue(recipe, nutrientName) ==
  LET amount == IF Truthy(recipe.nutrition)
                  THEN FindAmount(recipe.nutrition.nutrients, nutrientName)
                  ELSE Undefined
  IN  IF IsFinite(amount) THEN amount ELSE Dash

\* ------------------------------------------------------------- variables
VARIABLES
  pantry,                   \* state.pantry
  pantryItems,              \* the ingredients the pantry list of the page shows, in order
  activeCommon,             \* the common ingredients that carry the --active class
  validating,               \* controlAddIngredient calls awaiting validateIngredientWithAPI
  trial,                    \* a recipe object under a sequence of servings adjustments
  ingredientSearchResults,  \* state.ingredientSearchResults
  browseSearchResults,      \* state.browseSearchResults
  recipeBook,               \* state.recipeBook
  mealPlan,                 \* state.mealPlan
  mealCalendarWeek,         \* state.mealCalendarWeek
  localStorage,             \* the "recipeBook" and "mealPlan" records
  pending,                  \* detail fetches in flight whose search is awaiting them, per mode
  late,                     \* detail fetches in flight whose search has timed out, per mode
  spinner,                  \* whether the loading spinner of the mode's page is shown
  nextId,                   \* the next value of generateUniqueId
  budget,                   \* how many of each kind of user action have happened
  last                      \* the handler that ran last, its arguments and its outcome

\* the pantry and the elements of the Ingredient Search page that show it
pantryVars == <<pantry, pantryItems, activeCommon, validating>>

\* the searches under way and what their pages show of them
searchVars == <<pending, late, spinner>>

vars ==
  <<pantryVars, trial, ingredientSearchResults, browseSearchResults, recipeBook, mealPlan,
    mealCalendarWeek, localStorage, searchVars, nextId, budget, last>>

\* ------------------------------------------------- ingredient availability
Availability(stateName, matching) ==
  [availabilityState |-> stateName, matchingPantryIngredient |-> matching]

RECURSIVE FirstIn(_, _, _)
\* Array.prototype.find over a list of strings with the test Test(item) == item = s \/ ...
\* expressed by a kind: "eq" item = s, "itemIncludes" item.includes(s), "sIncludes" s.includes(item)
FirstIn(items, kind, s) ==
  IF items = <<>> THEN ""
  ELSE LET item == Head(items)
           hit == CASE kind = "eq" -> item = s
                    [] kind = "itemIncludes" -> Includes(item, s)
                    [] kind = "sIncludes" -> Includes(s, item)
       IN  IF hit THEN item ELSE FirstIn(Tail(items), kind, s)

checkHouseholdItem(ingredient, p) == FirstIn(COMMON_PANTRY_ITEMS, "eq", ingredient)

checkExactMatch(ingredient, p) == FirstIn(p, "eq", ingredient)

checkPartialMatch(ingredient, p) ==
  LET pantryMatch == FirstIn(p, "itemIncludes", ingredient)
      ingredientMatch == FirstIn(p, "sIncludes", ingredient)
  IN  IF pantryMatch # "" THEN pantryMatch ELSE ingredientMatch

\* the loop body returns on its first iteration, so only the first synonym group is consulted,
\* and the pantry is not
checkSynonymMatch(ingredient, p) ==
  LET entry == INGREDIENT_SYNONYMS[1]
      match == FirstIn(entry.synonyms, "sIncludes", ingredient)
  IN  IF match # "" THEN entry.key ELSE ""

getIngredientAvailability(apiIngredientName, p) ==
  LET normalizedApiIngredient == normalizeIngredient(apiIngredientName)
  IN  IF checkHouseholdItem(normalizedApiIngredient, p) # ""
        THEN Availability("householdItem", checkHouseholdItem(normalizedApiIngredient, p))
      ELSE IF checkExactMatch(normalizedApiIngredient, p) # ""
        THEN Availability("definitelyAvailable", normalizedApiIngredient)
      ELSE IF checkPartialMatch(normalizedApiIngredient, p) # ""
        THEN Availability("potentiallyAvailable", checkPartialMatch(normalizedApiIngredient, p))
      ELSE IF checkSynonymMatch(normalizedApiIngredient, p) # ""
        THEN Availability("potentiallyAvailable", checkSynonymMatch(normalizedApiIngredient, p))
      ELSE Availability("unavailable", "null")

RECURSIVE calculateMissingIngredients(_, _)
calculateMissingIngredients(ingredients, p) ==
  IF ingredients = <<>> THEN 0
  ELSE (IF getIngredientAvailability(Head(ingredients).name, p).availabilityState = "unavailable"
          THEN 1 ELSE 0)
       + calculateMissingIngredients(Tail(ingredients), p)

\* ------------------------------------------------------- recipe objects
\* (x / dv) * 100
PercentDV(x, dv) == JsMul(JsDiv(x, Num(dv)), Num(100))

createRecipeObject(recipe, mode, book, p) ==
  LET protein == getNutrientValue(recipe, "Protein")
      fats == getNutrientValue(recipe, "Fat")
      carbs == getNutrientValue(recipe, "Carbohydrates")
      raw == recipe.extendedIngredients.items
      ingredients == [i \in 1..Len(raw) |->
                        [name |-> raw[i].name,
                         quantity |-> raw[i].amount,
                         availability |-> getIngredientAvailability(raw[i].name, p)]]
  IN  [id |-> recipe.id,
       isBookmarked |-> HasId(book, recipe.id),
       servings |-> recipe.servings,
       ingredients |-> Arr(ingredients),
       nutr |-> [k \in NutrientNames |-> getNutrientValue(recipe, ApiNutrientName(k))],
       percentDVProtein |-> PercentDV(protein, RECOMMENDED_PROTEIN_DV),
       percentDVFats |-> PercentDV(fats, RECOMMENDED_FATS_DV),
       percentDVCarbs |-> PercentDV(carbs, RECOMMENDED_CARBS_DV),
       numMissingIngredients |->
         IF mode = "ingredientSearch" THEN Num(calculateMissingIngredients(ingredients, p))
         ELSE NotApplicable,
       origin |-> "app"]

\* faulty variant: the copy the recipe book holds is ignored
createUnmarkedRecipeObject(recipe, mode, book, p) == createRecipeObject(recipe, mode, <<>>, p)

\* faulty variant: the recipe is converted from the API record whatever the recipe book holds
createRecipeObjectAnew(recipe, mode, book, p) == createRecipeObject(recipe, mode, book, p)

getOrCreateRecipeObject(recipe, mode, book, p) ==
  IF HasId(book, recipe.id)
    THEN LET existingRecipe == book[IdIndex(book, recipe.id)]
             copied == deepCopy(existingRecipe)
             ingredients == [i \in 1..Len(copied.ingredients.items) |->
                               [copied.ingredients.items[i] EXCEPT
                                  !.availability =
                                    getIngredientAvailability(copied.ingredients.items[i].name, p)]]
         IN  [copied EXCEPT
                !.ingredients = Arr(ingredients),
                !.numMissingIngredients =
                  IF mode = "ingredientSearch"
                    THEN Num(calculateMissingIngredients(ingredients, p))
                    ELSE copied.numMissingIngredients]
    ELSE createRecipeObject(recipe, mode, book, p)

\* Array.prototype.sort((a, b) => a.numMissingIngredients - b.numMissingIngredients): stable;
\* a comparator value that is not a positive number leaves the pair in place
RECURSIVE InsertByMissing(_, _)
InsertByMissing(sorted, r) ==
  IF sorted = <<>> THEN <<r>>
  ELSE LET lastOne == sorted[Len(sorted)]
       IN  IF JsLess(r.numMissingIngredients, lastOne.numMissingIngredients)
             THEN Append(InsertByMissing(SubSeq(sorted, 1, Len(sorted) - 1), r), lastOne)
             ELSE Append(sorted, r)

RECURSIVE SortByMissing(_)
SortByMissing(seq) ==
  IF seq = <<>> THEN <<>>
  ELSE InsertByMissing(SortByMissing(SubSeq(seq, 1, Len(seq) - 1)), seq[Len(seq)])

populateSearchResults(resultsArray, recipeObj, mode) ==
  IF mode = "ingredientSearch"
    THEN SortByMissing(Append(resultsArray, recipeObj))
    ELSE Append(resultsArray, recipeObj)

\* data.filter(isValidRecipe)
RECURSIVE FilterValid(_)
FilterValid(data) ==
  IF data = <<>> THEN <<>>
  ELSE (IF isValidRecipe(Head(data)) THEN <<Head(data)>> ELSE <<>>) \o FilterValid(Tail(data))

\* validRecipes.forEach(... populateSearchResults(getOrCreateRecipeObject(recipe, mode), mode))
RECURSIVE PopulateAll(_, _, _, _, _)
PopulateAll(resultsArray, validRecipes, mode, book, p) ==
  IF validRecipes = <<>> THEN resultsArray
  ELSE PopulateAll(
         populateSearchResults(resultsArray,
                               getOrCreateRecipeObject(Head(validRecipes), mode, book, p), mode),
         Tail(validRecipes), mode, book, p)

\* ----------------------------------------------------------- meal plan
\* getDayMealPlan(dayDateString).weekKey
WeekKey(date) == getMondayOfTheWeek(date)

\* is the date a day of the stored plan
InPlan(plan, date) == WeekKey(date) \in DOMAIN plan /\ date \in DOMAIN plan[WeekKey(date)]

\* state.mealPlan[weekKey][date].meals[meal]
Slot(plan, date, meal) == plan[WeekKey(date)][date].meals[meal]

SetSlot(plan, date, meal, entries) ==
  [plan EXCEPT ![WeekKey(date)][date].meals[meal] = entries]

\* mealsInMealSlot
mealsInMealSlot(plan, dateString, meal) == Ids(Slot(plan, dateString, meal))

\* Array.prototype.includes on a list of ids
IncludesId(ids, id) == \E i \in 1..Len(ids) : ids[i] = id

\* the recipes of a day in the order `for (const mealType in meals)` visits them
DayRecipes(dayMealPlan) ==
  dayMealPlan.meals["breakfast"] \o dayMealPlan.meals["lunch"]
    \o dayMealPlan.meals["snacks"] \o dayMealPlan.meals["dinner"]

\* nutrition[key] += recipe[key], recipe after recipe
RECURSIVE Accumulate(_, _, _)
Accumulate(total, recipes, key) ==
  IF recipes = <<>> THEN total
  ELSE Accumulate(JsAdd(total, Head(recipes).nutr[key]), Tail(recipes), key)

updateNutritionForDay(plan, dayDateString) ==
  LET dayMealPlan == plan[WeekKey(dayDateString)][dayDateString]
  IN  [plan EXCEPT ![WeekKey(dayDateString)][dayDateString].nutrition =
         [key \in NutritionNames |-> Accumulate(Num(0), DayRecipes(dayMealPlan), key)]]

RECURSIVE UpdateDays(_, _)
UpdateDays(plan, days) ==
  IF days = {} THEN plan
  ELSE LET day == CHOOSE d \in days : TRUE
       IN  UpdateDays(updateNutritionForDay(plan, day), days \ {day})

updateNutritionForWeek(plan, mondayOfWeekDateString) ==
  UpdateDays(plan, DOMAIN plan[mondayOfWeekDateString])

\* faulty variant: the entry is removed but the week's nutrition is not recomputed
deleteRecipeKeepingTotals(plan, recipeId, dayDateString, mealTime) ==
  LET entries == Slot(plan, dayDateString, mealTime)
  IN  SetSlot(plan, dayDateString, mealTime, Splice1(entries, IdIndex(entries, recipeId) - 1))

\* faulty variant: the last entry of the slot is removed, whatever its id
deleteLastRecipeFromMealPlan(plan, recipeId, dayDateString, mealTime) ==
  updateNutritionForWeek(
    SetSlot(plan, dayDateString, mealTime, Splice1(Slot(plan, dayDateString, mealTime), -1)),
    WeekKey(dayDateString))

deleteRecipeFromMealPlan(plan, recipeId, dayDateString, mealTime) ==
  LET entries == Slot(plan, dayDateString, mealTime)
      recipeToDeleteIndex == IdIndex(entries, recipeId) - 1
  IN  updateNutritionForWeek(
        SetSlot(plan, dayDateString, mealTime, Splice1(entries, recipeToDeleteIndex)),
        WeekKey(dayDateString))

createCustomRecipeObject(id, inputs) ==
  [id |-> id,
   isBookmarked |-> FALSE,
   servings |-> Unavailable,
   ingredients |-> Unavailable,
   nutr |-> [k \in NutrientNames |->
               CASE k = "calories" -> ToNumber(inputs.mealCalories)
                 [] k = "protein" -> ToNumber(inputs.mealProtein)
                 [] k = "fats" -> ToNumber(inputs.mealFats)
                 [] k = "carbs" -> ToNumber(inputs.mealCarbs)
                 [] OTHER -> Unavailable],
   percentDVProtein |-> Unavailable,
   percentDVFats |-> Unavailable,
   percentDVCarbs |-> Unavailable,
   numMissingIngredients |-> NotApplicable,
   origin |-> "customMealEntry"]

createCustomMealEntry(plan, id, inputs) ==
  updateNutritionForWeek(
    SetSlot(plan, inputs.date, inputs.meal,
            Append(Slot(plan, inputs.date, inputs.meal), createCustomRecipeObject(id, inputs))),
    WeekKey(inputs.date))

\* ------------------------------------------------------------- servings
\* `newServings` is the text of the servings input, or NoServings for the null default
NoServings == "null"

\* the `operation` argument when the caller passes null
NoOperation == "none"

calculateUpdatedServings(currentServings, operation, newServings) ==
  IF newServings # NoServings THEN ToNumber(newServings)
  ELSE IF operation = "increaseServings" THEN JsAdd(currentServings, Num(1))
  ELSE JsSub(currentServings, Num(1))

isValidServings(servings) ==
  IF JsLess(servings, Num(MinServings)) \/ JsLess(Num(MaxServings), servings) THEN FALSE ELSE TRUE

\* faulty variant: the quantities are not scaled
keepIngredientQuantities(ingredients, servingsRatio) == ingredients

updateIngredientQuantities(ingredients, servingsRatio) ==
  Arr([i \in 1..Len(ingredients.items) |->
         [ingredients.items[i] EXCEPT !.quantity = JsMul(@, servingsRatio)]])

updateNutrientQuantities(nutr, servingsRatio) ==
  [k \in NutrientNames |-> IF IsFinite(nutr[k]) THEN JsMul(nutr[k], servingsRatio) ELSE nutr[k]]

updatePercentDV(recipe) ==
  [recipe EXCEPT !.percentDVProtein = PercentDV(recipe.nutr["protein"], RECOMMENDED_PROTEIN_DV),
                 !.percentDVFats = PercentDV(recipe.nutr["fats"], RECOMMENDED_FATS_DV),
                 !.percentDVCarbs = PercentDV(recipe.nutr["carbs"], RECOMMENDED_CARBS_DV)]

\* what adjustServings makes of the recipe object it fetched
AdjustedRecipe(recipe, operation, newServings) ==
  LET updatedServings == calculateUpdatedServings(recipe.servings, operation, newServings)
      servingsRatio == JsDiv(updatedServings, recipe.servings)
  IN  IF ~isValidServings(updatedServings) THEN recipe
      ELSE [updatePercentDV(
              [recipe EXCEPT !.ingredients = updateIngredientQuantities(recipe.ingredients, servingsRatio),
                             !.nutr = updateNutrientQuantities(recipe.nutr, servingsRatio)])
            EXCEPT !.servings = updatedServings]

updateProperties(recipe, updatedRecipe) ==
  [recipe EXCEPT !.servings = updatedRecipe.servings,
                 !.ingredients = JsonIngredients(updatedRecipe.ingredients),
                 !.nutr = updatedRecipe.nutr]

\* one of the forEach loops of synchronizeRecipeInstances
SyncList(recipes, updatedRecipe) ==
  [i \in 1..Len(recipes) |->
     IF recipes[i].id = updatedRecipe.id THEN updateProperties(recipes[i], updatedRecipe)
     ELSE recipes[i]]

\* ------------------------------------------------------------ bookmarks
\* one of the forEach loops of synchronizeBookmarkStatus / updateBookmarkStatus
MarkList(recipes, recipeId, newBookmarkStatus) ==
  [i \in 1..Len(recipes) |->
     IF recipes[i].id = recipeId THEN [recipes[i] EXCEPT !.isBookmarked = newBookmarkStatus]
     ELSE recipes[i]]

\* the forEach over the meals of one day; a day without entries has nothing to mark
MarkDay(dayMealPlan, recipeId, newBookmarkStatus) ==
  IF dayMealPlan = createEmptyMealObj THEN dayMealPlan
  ELSE [dayMealPlan EXCEPT !.meals =
          [m \in MealNames |-> MarkList(dayMealPlan.meals[m], recipeId, newBookmarkStatus)]]

\* faulty variant: the meal plan is not visited
skipMealPlannerBookmarkStatus(plan, recipeId, newBookmarkStatus) == plan

syncMealPlannerBookmarkStatus(plan, recipeId, newBookmarkStatus) ==
  [w \in DOMAIN plan |->
     [d \in DOMAIN plan[w] |-> MarkDay(plan[w][d], recipeId, newBookmarkStatus)]]

\* faulty variant: the recipe stays in the book
keepRecipeInBook(book, recipeId) == book

removeRecipeFromBook(book, recipeId) ==
  Splice1(book, IdIndex(book, recipeId) - 1)

\* ------------------------------------------------------------- storage
Null == [t |-> "null"]

JsonRecipes(recipes) == [i \in 1..Len(recipes) |-> deepCopy(recipes[i])]

\* JSON.stringify(state.recipeBook)
StringifyBook(book) == [t |-> "json", value |-> JsonRecipes(book)]

\* the JSON image of one day of the plan; a day without entries and with zero totals is its own
JsonDay(dayMealPlan) ==
  IF dayMealPlan = createEmptyMealObj THEN dayMealPlan
  ELSE [meals |-> [m \in MealNames |-> JsonRecipes(dayMealPlan.meals[m])],
        nutrition |-> [k \in NutritionNames |-> JsonValue(dayMealPlan.nutrition[k])]]

\* JSON.stringify(state.mealPlan)
StringifyPlan(plan) ==
  [t |-> "json",
   value |-> [w \in DOMAIN plan |-> [d \in DOMAIN plan[w] |-> JsonDay(plan[w][d])]]]

\* ------------------------------------------------- the state, by source
\* the three browse collections, keyed as getSourceArray keys them
Lists ==
  [ingredientSearch |-> ingredientSearchResults,
   browseRecipeSearch |-> browseSearchResults,
   recipeBook |-> recipeBook]

\* generateOptionsObject
BrowseOptions(source) == [source |-> source]

PlanOptions(currentDate, currentMeal) ==
  [source |-> "mealPlan", currentDate |-> currentDate, currentMeal |-> currentMeal]

\* does getRecipe find the recipe
Located(lists, plan, recipeId, options) ==
  IF options.source = "mealPlan"
    THEN /\ InPlan(plan, options.currentDate)
         /\ HasId(Slot(plan, options.currentDate, options.currentMeal), recipeId)
    ELSE HasId(lists[options.source], recipeId)

getRecipeFromBrowse(lists, recipeId, source) ==
  lists[source][IdIndex(lists[source], recipeId)]

getRecipeFromMealPlan(plan, recipeId, dayDateString, mealTime) ==
  LET entries == Slot(plan, dayDateString, mealTime)
  IN  entries[IdIndex(entries, recipeId)]

getRecipe(lists, plan, recipeId, options) ==
  IF options.source = "mealPlan"
    THEN getRecipeFromMealPlan(plan, recipeId, options.currentDate, options.currentMeal)
    ELSE getRecipeFromBrowse(lists, recipeId, options.source)

\* the recipe object getRecipe returned, rewritten in place
PutRecipe(lists, plan, recipeId, options, recipe) ==
  IF options.source = "mealPlan"
    THEN LET entries == Slot(plan, options.currentDate, options.currentMeal)
         IN  [lists |-> lists,
              plan |-> SetSlot(plan, options.currentDate, options.currentMeal,
                               [entries EXCEPT ![IdIndex(entries, recipeId)] = recipe])]
    ELSE [lists |-> [lists EXCEPT ![options.source][IdIndex(lists[options.source], recipeId)] = recipe],
          plan |-> plan]

\* faulty variant: the recipe book is not visited
synchronizeSearchResultsOnly(lists, updatedRecipe) ==
  [s \in BrowseSources |->
     IF s = "recipeBook" THEN lists[s] ELSE SyncList(lists[s], updatedRecipe)]

synchronizeRecipeInstances(lists, updatedRecipe) ==
  [s \in BrowseSources |-> SyncList(lists[s], updatedRecipe)]

\* faulty variant: the update is propagated whatever the source
adjustServingsEverywhere(lists, plan, recipeId, operation, options, newServings) ==
  LET recipe == getRecipe(lists, plan, recipeId, options)
      updatedServings == calculateUpdatedServings(recipe.servings, operation, newServings)
      updated == AdjustedRecipe(recipe, operation, newServings)
      put == PutRecipe(lists, plan, recipeId, options, updated)
  IN  IF ~isValidServings(updatedServings) THEN [lists |-> lists, plan |-> plan]
      ELSE [lists |-> synchronizeRecipeInstances(put.lists, updated), plan |-> put.plan]

adjustServings(lists, plan, recipeId, operation, options, newServings) ==
  LET recipe == getRecipe(lists, plan, recipeId, options)
      updatedServings == calculateUpdatedServings(recipe.servings, operation, newServings)
      updated == AdjustedRecipe(recipe, operation, newServings)
      put == PutRecipe(lists, plan, recipeId, options, updated)
  IN  IF ~isValidServings(updatedServings) THEN [lists |-> lists, plan |-> plan]
      ELSE IF options.source # "mealPlan"
        THEN [lists |-> synchronizeRecipeInstances(put.lists, updated), plan |-> put.plan]
      ELSE put

updateBookmarkStatus(lists, plan, recipeId, newBookmarkStatus, options) ==
  IF options.source = "mealPlan"
    THEN [lists |-> lists,
          plan |-> SetSlot(plan, options.currentDate, options.currentMeal,
                           MarkList(Slot(plan, options.currentDate, options.currentMeal),
                                    recipeId, newBookmarkStatus))]
    ELSE PutRecipe(lists, plan, recipeId, options,
                   [getRecipeFromBrowse(lists, recipeId, options.source)
                      EXCEPT !.isBookmarked = newBookmarkStatus])

addRecipeToRecipeBookById(lists, plan, recipeId, options) ==
  Append(lists["recipeBook"], deepCopy(getRecipe(lists, plan, recipeId, options)))

synchronizeBookmarkStatus(lists, plan, recipeId, newBookmarkStatus) ==
  [lists |-> [s \in BrowseSources |-> MarkList(lists[s], recipeId, newBookmarkStatus)],
   plan |-> syncMealPlannerBookmarkStatus(plan, recipeId, newBookmarkStatus)]

\* addRecipeToMealPlan up to its saveMealPlan(): the copy is placed, adjusted and counted
placeRecipeCopy(lists, plan, recipeId, userInputs, options) ==
  LET date == userInputs.date
      meal == userInputs.meal
      recipeCopy == deepCopy(getRecipe(lists, plan, recipeId, options))
      cleared == IF userInputs.operation = "replace" THEN SetSlot(plan, date, meal, <<>>) ELSE plan
      pushed == SetSlot(cleared, date, meal, Append(Slot(cleared, date, meal), recipeCopy))
      adjusted == IF recipeCopy.origin # "customMealEntry"
                    THEN adjustServings(lists, pushed, recipeCopy.id, NoOperation,
                                        PlanOptions(date, meal), userInputs.numServings).plan
                    ELSE pushed
  IN  updateNutritionForWeek(adjusted, WeekKey(date))

addRecipeToMealPlan(lists, plan, recipeId, userInputs, options) ==
  LET summed == placeRecipeCopy(lists, plan, recipeId, userInputs, options)
  IN  IF options.source = "mealPlan"
        THEN deleteRecipeFromMealPlan(summed, recipeId, options.currentDate, options.currentMeal)
        ELSE summed

\* faulty variant: no request is taken for a duplicate
neverInMealSlot(plan, recipeId, dateToBePlaced, mealToBePlaced, operation) == FALSE

isRecipeAlreadyInMealSlot(plan, recipeId, dateToBePlaced, mealToBePlaced, operation) ==
  IncludesId(mealsInMealSlot(plan, dateToBePlaced, mealToBePlaced), recipeId) /\ operation # "replace"

\* ------------------------------------------------------ inputs of the UI
\* the modes loadRecipeDetails is called with
Modes == {"ingredientSearch", "browseRecipes"}

\* the (date, meal) slots the user picks in the Add Recipe / Add Meal To Slot modals: two meals
\* of this week's Monday and one of next week's
SlotInputs ==
  {[date |-> getMondayOfTheWeek(Today), meal |-> "lunch"],
   [date |-> getMondayOfTheWeek(Today), meal |-> "dinner"],
   [date |-> getMondayOfTheWeek(Today) + 7, meal |-> "lunch"]}

OperationInputs == {"add", "replace"}

\* the text of the servings input of the Add Recipe Modal
ServingsInputs == {"1", "51"}

\* the Custom Meal Entry form
CustomEntryInputs ==
  {[date |-> s.date, meal |-> s.meal, mealCalories |-> "250", mealProtein |-> "10",
    mealCarbs |-> "20", mealFats |-> "5"] : s \in SlotInputs}

\* generateUniqueId yields a number no other recipe carries
FirstUniqueId == 101

\* the days of a plan that hold something
BusyDays(plan) ==
  UNION {{d \in DOMAIN plan[w] : plan[w][d] # createEmptyMealObj} : w \in DOMAIN plan}

\* the meal-plan entries the calendar renders: one per recipe instance
RenderedEntries(plan) ==
  UNION {UNION {{[date |-> d, meal |-> m, index |-> i,
                  id |-> Slot(plan, d, m)[i].id, origin |-> Slot(plan, d, m)[i].origin] :
                    i \in 1..Len(Slot(plan, d, m))} :
               m \in MealNames} :
         d \in BusyDays(plan)}

\* the number of recipe instances in a plan
PlanSize(plan) == Cardinality(RenderedEntries(plan))

\* the recipe cards a handler can be invoked on: what the three browse views render
RenderedCards(lists) ==
  UNION {{[source |-> s, id |-> lists[s][i].id] : i \in 1..Len(lists[s])} : s \in BrowseSources}

\* every recipe the user can open, with the options its handlers are called with
Openable(lists, plan) ==
  {[id |-> c.id, options |-> BrowseOptions(c.source)] : c \in RenderedCards(lists)}
    \cup {[id |-> e.id, options |-> PlanOptions(e.date, e.meal)] :
            e \in {x \in RenderedEntries(plan) : x.origin # "customMealEntry"}}

\* every recipe the Add Recipe Modal can be opened for (meal-plan entries of any origin: a move)
Addable(lists, plan) ==
  {[id |-> c.id, options |-> BrowseOptions(c.source)] : c \in RenderedCards(lists)}
    \cup {[id |-> e.id, options |-> PlanOptions(e.date, e.meal)] : e \in RenderedEntries(plan)}

\* ----------------------------------------------------------------- Init
\* What an earlier session can have left in localStorage: an Omelette bookmarked from the Browse
\* Recipes results and planned, from the recipe book and for 50 servings, for this Monday's
\* lunch; or one custom meal entry in that slot.
SavedEntryId == 100

SavedOmelette ==
  [createRecipeObject(Omelette, "browseRecipes", <<>>, <<>>) EXCEPT !.isBookmarked = TRUE]

SavedBook == <<deepCopy(SavedOmelette)>>

EmptyPlan == [w \in {weeksRange[i] : i \in 1..NumWeeks} |-> createWeeklyMealPlan(w)]

SavedOmelettePlan ==
  addRecipeToMealPlan(
    [ingredientSearch |-> <<>>, browseRecipeSearch |-> <<>>, recipeBook |-> SavedBook],
    EmptyPlan, Omelette.id,
    [date |-> getMondayOfTheWeek(Today), meal |-> "lunch", operation |-> "add", numServings |-> "50"],
    BrowseOptions("recipeBook"))

SavedCustomPlan ==
  createCustomMealEntry(EmptyPlan, Num(SavedEntryId),
    [date |-> getMondayOfTheWeek(Today), meal |-> "lunch", mealCalories |-> "250",
     mealProtein |-> "10", mealCarbs |-> "20", mealFats |-> "5"])

\* how much a session does of each kind of user action
PlanSession ==
  [searches |-> MaxSearches - 1, planOps |-> MaxPlanOps, adjust |-> 0, toggles |-> 0, recipes |-> 0]

BrowseSession ==
  [searches |-> MaxSearches, planOps |-> 0, adjust |-> MaxAdjust, toggles |-> MaxToggles,
   recipes |-> 0]

MixedSession ==
  [searches |-> MaxSearches - 1, planOps |-> MaxPlanOps - 1, adjust |-> MaxAdjust, toggles |-> 0,
   recipes |-> 0]

BookmarkSession ==
  [searches |-> MaxSearches - 1, planOps |-> MaxPlanOps - 1, adjust |-> 0, toggles |-> MaxToggles,
   recipes |-> MaxCustom]

\* the sessions explored: what localStorage holds when the page loads, and what the user does
Sessions ==
  {[budget |-> PlanSession, recipeBook |-> Null, mealPlan |-> Null],
   [budget |-> PlanSession, recipeBook |-> Null, mealPlan |-> StringifyPlan(SavedCustomPlan)],
   [budget |-> BrowseSession, recipeBook |-> Null, mealPlan |-> Null],
   [budget |-> BrowseSession, recipeBook |-> StringifyBook(SavedBook),
    mealPlan |-> StringifyPlan(SavedOmelettePlan)],
   [budget |-> MixedSession, recipeBook |-> StringifyBook(SavedBook),
    mealPlan |-> StringifyPlan(SavedOmelettePlan)],
   [budget |-> BookmarkSession, recipeBook |-> Null, mealPlan |-> Null]}

\* initializeRecipeBook
initializeRecipeBook(savedRecipeBook) ==
  IF savedRecipeBook = Null THEN <<>> ELSE savedRecipeBook.value

\* faulty variant: the weeks of the stored plan that have left the range are kept
keepSavedWeeks(savedMealPlan) ==
  [w \in {weeksRange[i] : i \in 1..NumWeeks}
          \cup (IF savedMealPlan = Null THEN {} ELSE DOMAIN savedMealPlan.value) |->
     IF savedMealPlan # Null /\ w \in DOMAIN savedMealPlan.value
       THEN savedMealPlan.value[w]
       ELSE createWeeklyMealPlan(w)]

\* faulty variant: the stored plan is not read
startWithEmptyPlan(savedMealPlan) ==
  [w \in {weeksRange[i] : i \in 1..NumWeeks} |-> createWeeklyMealPlan(w)]

\* initializeMealPlan
initializeMealPlan(savedMealPlan) ==
  [w \in {weeksRange[i] : i \in 1..NumWeeks} |->
     IF savedMealPlan # Null /\ w \in DOMAIN savedMealPlan.value
       THEN savedMealPlan.value[w]
       ELSE createWeeklyMealPlan(w)]

\* no recipe is under a sequence of servings adjustments
NoTrial == [stage |-> "none"]

\* the page has loaded with what the session left in localStorage
Loaded(session) ==
  /\ localStorage = [recipeBook |-> session.recipeBook, mealPlan |-> session.mealPlan]
  /\ budget = session.budget
  /\ ingredientSearchResults = <<>>
  /\ browseSearchResults = <<>>
  /\ recipeBook = initializeRecipeBook(session.recipeBook)
  /\ mealPlan = initializeMealPlan(session.mealPlan)
  /\ mealCalendarWeek = getMondayOfTheWeek(Today)
  /\ pending = [m \in Modes |-> 0]
  /\ late = [m \in Modes |-> 0]
  /\ spinner = [m \in Modes |-> FALSE]
  /\ nextId = FirstUniqueId
  /\ last = [kind |-> "init"]

\* state.pantry is empty and the Ingredient Search page shows no pantry ingredient
EmptyPantry ==
  /\ pantry = <<>>
  /\ pantryItems = <<>>
  /\ activeCommon = {}
  /\ validating = <<>>

Init ==
  \E session \in Sessions :
    /\ Loaded(session)
    /\ EmptyPantry
    /\ trial = NoTrial

\* -------------------------------------------------------------- search
\* controlIngredientSearch / controlBrowseRecipes up to their first await: the results of the
\* mode are cleared, the loading spinner is shown and the requests go out
StartSearch(mode) ==
  /\ pending[mode] + late[mode] < MaxPending
  /\ budget.searches > 0
  /\ budget' = [budget EXCEPT !.searches = @ - 1]
  /\ pending' = [pending EXCEPT ![mode] = @ + 1]
  /\ spinner' = [spinner EXCEPT ![mode] = TRUE]
  /\ IF mode = "ingredientSearch"
       THEN ingredientSearchResults' = <<>> /\ UNCHANGED browseSearchResults
       ELSE browseSearchResults' = <<>> /\ UNCHANGED ingredientSearchResults
  /\ last' = [kind |-> "startSearch", mode |-> mode]
  /\ UNCHANGED <<pantryVars, trial, recipeBook, mealPlan, mealCalendarWeek, localStorage, late, nextId>>

\* the body of loadRecipeDetails after the details response `data` has arrived: the valid
\* recipes are added to the results of the mode
PopulateResults(mode, data) ==
  \E validRecipes \in {FilterValid(data)} :
    \E resultsArray \in {IF mode = "ingredientSearch" THEN ingredientSearchResults
                         ELSE browseSearchResults} :
      /\ Len(resultsArray) + Len(validRecipes) <= MaxResults
      /\ \E populated \in {PopulateAll(resultsArray, validRecipes, mode, recipeBook, pantry)} :
           IF mode = "ingredientSearch"
             THEN ingredientSearchResults' = populated /\ UNCHANGED browseSearchResults
             ELSE browseSearchResults' = populated /\ UNCHANGED ingredientSearchResults

\* the details response `data` arrives while the search awaits it: loadRecipeDetails fills the
\* results, the search renders them or the no-results message and hides the spinner
ResolveDetails(mode, data) ==
  /\ pending[mode] > 0
  /\ PopulateResults(mode, data)
  /\ pending' = [pending EXCEPT ![mode] = @ - 1]
  /\ spinner' = [spinner EXCEPT ![mode] = FALSE]
  /\ last' = [kind |-> "resolveDetails", mode |-> mode, data |-> data,
              noResults |-> FilterValid(data) = <<>>]
  /\ UNCHANGED <<pantryVars, trial, recipeBook, mealPlan, mealCalendarWeek, localStorage, late, nextId,
                 budget>>

\* a request of the search fails, or the ids request has no results: the search renders the
\* message and hides the spinner
SearchFails(mode) ==
  /\ pending[mode] > 0
  /\ pending' = [pending EXCEPT ![mode] = @ - 1]
  /\ spinner' = [spinner EXCEPT ![mode] = FALSE]
  /\ last' = [kind |-> "searchFails", mode |-> mode]
  /\ UNCHANGED <<pantryVars, trial, ingredientSearchResults, browseSearchResults, recipeBook, mealPlan,
                 mealCalendarWeek, localStorage, late, nextId, budget>>

\* faulty variant: the search that timed out leaves its spinner on
timeoutLeavesSpinner(mode) ==
  /\ pending[mode] > 0
  /\ pending' = [pending EXCEPT ![mode] = @ - 1]
  /\ late' = [late EXCEPT ![mode] = @ + 1]
  /\ last' = [kind |-> "timedOut", mode |-> mode]
  /\ UNCHANGED <<pantryVars, trial, ingredientSearchResults, browseSearchResults, recipeBook, mealPlan,
                 mealCalendarWeek, localStorage, spinner, nextId, budget>>

\* timeout(5000) rejects before the details response: Promise.race rejects, the search renders
\* the timeout message and hides the spinner; the fetch of loadRecipeDetails stays in flight
TimeoutFires(mode) ==
  /\ pending[mode] > 0
  /\ pending' = [pending EXCEPT ![mode] = @ - 1]
  /\ late' = [late EXCEPT ![mode] = @ + 1]
  /\ spinner' = [spinner EXCEPT ![mode] = FALSE]
  /\ last' = [kind |-> "timedOut", mode |-> mode]
  /\ UNCHANGED <<pantryVars, trial, ingredientSearchResults, browseSearchResults, recipeBook, mealPlan,
                 mealCalendarWeek, localStorage, nextId, budget>>

\* the details response `data` arrives after its search has timed out: loadRecipeDetails runs
\* on as if nothing had happened
ResolveLate(mode, data) ==
  /\ late[mode] > 0
  /\ PopulateResults(mode, data)
  /\ late' = [late EXCEPT ![mode] = @ - 1]
  /\ last' = [kind |-> "resolveLate", mode |-> mode, data |-> data,
              before |-> IF mode = "ingredientSearch" THEN ingredientSearchResults
                         ELSE browseSearchResults]
  /\ UNCHANGED <<pantryVars, trial, recipeBook, mealPlan, mealCalendarWeek, localStorage, pending,
                 spinner, nextId, budget>>

\* the details request fails after its search has timed out: loadRecipeDetails rethrows and
\* nobody is listening
FailLate(mode) ==
  /\ late[mode] > 0
  /\ late' = [late EXCEPT ![mode] = @ - 1]
  /\ last' = [kind |-> "failLate", mode |-> mode]
  /\ UNCHANGED <<pantryVars, trial, ingredientSearchResults, browseSearchResults, recipeBook, mealPlan,
                 mealCalendarWeek, localStorage, pending, spinner, nextId, budget>>

\* ------------------------------------------------------------ handlers
\* faulty variant: the plan is changed in memory and not written to localStorage
keepStoredPlan(plan) ==
  /\ mealPlan' = plan
  /\ UNCHANGED localStorage

\* saveMealPlan() once state.mealPlan has become `plan`
SavePlan(plan) ==
  /\ mealPlan' = plan
  /\ localStorage' = [localStorage EXCEPT !.mealPlan = StringifyPlan(plan)]

\* controlUpdateServings(recipeId, operation, options)
ControlUpdateServings(recipeId, operation, options) ==
  /\ budget.adjust > 0
  /\ Located(Lists, mealPlan, recipeId, options)
  /\ \E adjusted \in {adjustServings(Lists, mealPlan, recipeId, operation, options, NoServings)} :
       \* updateMealPlanDayUI
       \E plan \in {IF options.source = "mealPlan"
                      THEN updateNutritionForDay(adjusted.plan, options.currentDate)
                      ELSE adjusted.plan} :
         /\ ingredientSearchResults' = adjusted.lists["ingredientSearch"]
         /\ browseSearchResults' = adjusted.lists["browseRecipeSearch"]
         /\ recipeBook' = adjusted.lists["recipeBook"]
         /\ mealPlan' = plan
         /\ localStorage' =
              [recipeBook |->
                 \* isUserBrowsing && updatedRecipe.isBookmarked
                 IF /\ options.source \in BrowseSources
                    /\ getRecipe(adjusted.lists, adjusted.plan, recipeId, options).isBookmarked
                   THEN StringifyBook(adjusted.lists["recipeBook"])
                   ELSE localStorage.recipeBook,
               mealPlan |-> IF options.source = "mealPlan" THEN StringifyPlan(plan)
                            ELSE localStorage.mealPlan]
  /\ budget' = [budget EXCEPT !.adjust = @ - 1]
  /\ last' = [kind |-> "updateServings", id |-> recipeId, operation |-> operation,
              options |-> options]
  /\ UNCHANGED <<pantryVars, trial, mealCalendarWeek, searchVars, nextId>>

\* the flags of the copies of the recipe, wherever they are
FlagsOf(lists, plan, recipeId) ==
  UNION {{lists[s][i].isBookmarked : i \in {k \in 1..Len(lists[s]) : lists[s][k].id = recipeId}} :
           s \in BrowseSources}
    \cup {Slot(plan, e.date, e.meal)[e.index].isBookmarked :
            e \in {x \in RenderedEntries(plan) : x.id = recipeId}}

\* what a bookmark toggle can change: the ids in the recipe book and the flags of the copies
BookmarkView(lists, plan, recipeId) ==
  [members |-> {lists["recipeBook"][i].id : i \in 1..Len(lists["recipeBook"])},
   flags |-> FlagsOf(lists, plan, recipeId)]

\* the Recipe Details Modal is still open on the recipe whose bookmark was toggled last
StillOpen ==
  IF last.kind = "bookmarks" THEN {[id |-> last.id, options |-> last.options]} ELSE {}

\* controlBookmarks(recipeId, options): toggleBookmarkStatus, then synchronizeBookmarks.
\* getBookmarkStatus reads recipe.isBookmarked of what getRecipe finds: when the recipe is no
\* longer at its source, that is null and the handler throws before it changes anything.
ControlBookmarks(recipeId, options) ==
  /\ budget.toggles > 0
  /\ \E again \in {last.kind = "bookmarks" /\ last.id = recipeId /\ last.options = options} :
      \E before \in {BookmarkView(Lists, mealPlan, recipeId)} :
       \E first \in {IF again THEN last.before ELSE before} :
        IF Located(Lists, mealPlan, recipeId, options)
          THEN
            \E isNowBookmarked \in {~getRecipe(Lists, mealPlan, recipeId, options).isBookmarked} :
             \E marked \in {updateBookmarkStatus(Lists, mealPlan, recipeId, isNowBookmarked, options)} :
              \E book \in {IF isNowBookmarked
                             THEN addRecipeToRecipeBookById(marked.lists, marked.plan, recipeId, options)
                             ELSE removeRecipeFromBook(marked.lists["recipeBook"], recipeId)} :
               \E synced \in {synchronizeBookmarkStatus([marked.lists EXCEPT !["recipeBook"] = book],
                                                        marked.plan, recipeId, isNowBookmarked)} :
                 /\ ingredientSearchResults' = synced.lists["ingredientSearch"]
                 /\ browseSearchResults' = synced.lists["browseRecipeSearch"]
                 /\ recipeBook' = synced.lists["recipeBook"]
                 /\ mealPlan' = synced.plan
                 /\ localStorage' = [recipeBook |-> StringifyBook(book),
                                     mealPlan |-> StringifyPlan(synced.plan)]
                 /\ last' = [kind |-> "bookmarks", id |-> recipeId, options |-> options,
                             isNowBookmarked |-> isNowBookmarked, again |-> again,
                             before |-> before, first |-> first]
          ELSE
            /\ last' = [kind |-> "bookmarksThrew", id |-> recipeId, options |-> options,
                        again |-> again, first |-> first]
            /\ UNCHANGED <<ingredientSearchResults, browseSearchResults, recipeBook, mealPlan,
                           localStorage>>
  /\ budget' = [budget EXCEPT !.toggles = @ - 1]
  /\ UNCHANGED <<pantryVars, trial, mealCalendarWeek, searchVars, nextId>>

\* controlAddRecipeToPlan(recipeId, userInputs, options)
ControlAddRecipeToPlan(recipeId, userInputs, options) ==
  /\ budget.planOps > 0
  /\ InPlan(mealPlan, userInputs.date)
  /\ Located(Lists, mealPlan, recipeId, options)
  /\ budget' = [budget EXCEPT !.planOps = @ - 1]
  /\ IF isRecipeAlreadyInMealSlot(mealPlan, recipeId, userInputs.date, userInputs.meal,
                                  userInputs.operation)
       THEN /\ last' = [kind |-> "addRejected", id |-> recipeId, userInputs |-> userInputs,
                        options |-> options]
            /\ UNCHANGED <<mealPlan, localStorage>>
       ELSE /\ \E plan \in {addRecipeToMealPlan(Lists, mealPlan, recipeId, userInputs, options)} :
                 /\ PlanSize(plan) <= MaxPlanEntries
                 /\ SavePlan(plan)
            /\ last' = [kind |-> "addRecipeToPlan", id |-> recipeId, userInputs |-> userInputs,
                        options |-> options]
  /\ UNCHANGED <<pantryVars, trial, ingredientSearchResults, browseSearchResults, recipeBook,
                 mealCalendarWeek, searchVars, nextId>>

\* controlRemoveMealEntry(recipeId, {dayDateString, meal})
ControlRemoveMealEntry(recipeId, dayDateString, meal) ==
  /\ budget.planOps > 0
  /\ Located(Lists, mealPlan, recipeId, PlanOptions(dayDateString, meal))
  /\ budget' = [budget EXCEPT !.planOps = @ - 1]
  /\ SavePlan(deleteRecipeFromMealPlan(mealPlan, recipeId, dayDateString, meal))
  /\ last' = [kind |-> "removeMealEntry", id |-> recipeId,
              options |-> PlanOptions(dayDateString, meal)]
  /\ UNCHANGED <<pantryVars, trial, ingredientSearchResults, browseSearchResults, recipeBook,
                 mealCalendarWeek, searchVars, nextId>>

\* controlAddCustomMealEntry(customEntryInputs)
ControlAddCustomMealEntry(customEntryInputs) ==
  /\ budget.planOps > 0
  /\ nextId < FirstUniqueId + MaxCustom
  /\ \E plan \in {createCustomMealEntry(mealPlan, Num(nextId), customEntryInputs)} :
       /\ PlanSize(plan) <= MaxPlanEntries
       /\ SavePlan(plan)
  /\ budget' = [budget EXCEPT !.planOps = @ - 1]
  /\ nextId' = nextId + 1
  /\ last' = [kind |-> "addCustomMealEntry", id |-> Num(nextId),
              userInputs |-> customEntryInputs]
  /\ UNCHANGED <<pantryVars, trial, ingredientSearchResults, browseSearchResults, recipeBook,
                 mealCalendarWeek, searchVars>>

\* the Custom Recipe form as the user fills it in
CustomRecipeInputs ==
  {[calories |-> "250", servings |-> "2", protein |-> "10", fats |-> "5", carbs |-> "20",
    sugar |-> sugar, ingredients |-> Arr(<<[name |-> "egg", quantity |-> Num(2)]>>)] :
     sugar \in {"", "3"}}

\* the Recipe object addCustomRecipeToRecipeBook builds
createCustomRecipe(id, newRecipe) ==
  [id |-> id,
   isBookmarked |-> TRUE,
   servings |-> ToNumber(newRecipe.servings),
   ingredients |-> newRecipe.ingredients,
   nutr |-> [k \in NutrientNames |->
               CASE k = "calories" -> ToNumber(newRecipe.calories)
                 [] k = "protein" -> ToNumber(newRecipe.protein)
                 [] k = "fats" -> ToNumber(newRecipe.fats)
                 [] k = "carbs" -> ToNumber(newRecipe.carbs)
                 [] k = "sugar" -> IF newRecipe.sugar # "" THEN ToNumber(newRecipe.sugar) ELSE Dash
                 [] OTHER -> Dash],
   percentDVProtein |-> PercentDV(ToNumber(newRecipe.protein), RECOMMENDED_PROTEIN_DV),
   percentDVFats |-> PercentDV(ToNumber(newRecipe.fats), RECOMMENDED_FATS_DV),
   percentDVCarbs |-> PercentDV(ToNumber(newRecipe.carbs), RECOMMENDED_CARBS_DV),
   numMissingIngredients |-> NotApplicable,
   origin |-> "user"]

\* controlAddCustomRecipe(): addCustomRecipeToRecipeBook(userInputs), which saves the book
ControlAddCustomRecipe(userInputs) ==
  /\ budget.recipes > 0
  /\ nextId < FirstUniqueId + MaxCustom
  /\ recipeBook' = Append(recipeBook, createCustomRecipe(Num(nextId), userInputs))
  /\ localStorage' = [localStorage EXCEPT !.recipeBook = StringifyBook(recipeBook')]
  /\ budget' = [budget EXCEPT !.recipes = @ - 1]
  /\ nextId' = nextId + 1
  /\ last' = [kind |-> "addCustomRecipe", id |-> Num(nextId), userInputs |-> userInputs]
  /\ UNCHANGED <<pantryVars, trial, ingredientSearchResults, browseSearchResults, mealPlan,
                 mealCalendarWeek, searchVars>>

\* ----------------------------------------------------------------- Next
Next ==
  \/ \E mode \in Modes : StartSearch(mode)
  \/ \E mode \in Modes, data \in Responses : ResolveDetails(mode, data)
  \/ \E mode \in Modes : SearchFails(mode)
  \/ \E mode \in Modes : TimeoutFires(mode)
  \/ \E mode \in Modes, data \in Responses : ResolveLate(mode, data)
  \/ \E mode \in Modes : FailLate(mode)
  \/ \E r \in Openable(Lists, mealPlan),
        operation \in {"increaseServings", "decreaseServings"} :
          ControlUpdateServings(r.id, operation, r.options)
  \/ \E r \in Openable(Lists, mealPlan) \cup StillOpen : ControlBookmarks(r.id, r.options)
  \/ \E r \in Addable(Lists, mealPlan), slot \in SlotInputs,
        operation \in OperationInputs, numServings \in ServingsInputs :
          ControlAddRecipeToPlan(
            r.id,
            [date |-> slot.date, meal |-> slot.meal, operation |-> operation,
             numServings |-> numServings],
            r.options)
  \/ \E e \in RenderedEntries(mealPlan) : ControlRemoveMealEntry(e.id, e.date, e.meal)
  \/ \E inputs \in CustomEntryInputs : ControlAddCustomMealEntry(inputs)
  \/ \E userInputs \in CustomRecipeInputs : ControlAddCustomRecipe(userInputs)

Spec == Init /\ [][Next]_vars

\* ------------------------------------------------------- the pantry page
\* isPantryFull: state.pantry.length > 24
PantryFullAbove == 24

MaxPantryOps == 3    \* ingredients typed and clicks on the pantry page in a session
MaxValidating == 2   \* controlAddIngredient calls awaiting the API at once

\* a pantry the user has stocked before the steps the model follows
StockedPantry ==
  <<"apple", "banana", "carrot", "celery", "garlic", "ginger", "honey", "lemon", "lime",
    "mango", "oat", "orange", "pea", "pear", "plum", "potato", "rice", "spinach", "tofu",
    "tomato", "turkey", "walnut", "yogurt", "zucchini">>

\* the text of the common-ingredient elements of the page
CommonIngredients == {"egg", "milk"}

\* what the user types in the ingredient search bar
TypedIngredients == {"Eggs ", "milk", "kale", "kale2"}

\* validateSearchInput(input): not empty, at most 50 characters, letters, spaces, `-`, `,`, `:`
validateSearchInput(input) == input \notin {"", "kale2"}

\* model.isPantryFull
isPantryFull(p) == Len(p) > PantryFullAbove

\* model.isIngredientInPantry
isIngredientInPantry(p, ingredient) == \E i \in 1..Len(p) : p[i] = ingredient

\* Array.prototype.findIndex with a strict-equality test, as a JavaScript index
FindIndex(p, ingredient) ==
  IF isIngredientInPantry(p, ingredient)
    THEN (CHOOSE i \in 1..Len(p) : p[i] = ingredient /\ \A j \in 1..(i - 1) : p[j] # ingredient) - 1
    ELSE -1

\* model.removeIngredientFromPantry
removeIngredientFromPantry(p, ingredient) == Splice1(p, FindIndex(p, ingredient))

\* IngredientSearchView.removePantryIngredient: the first item with that text, when there is one
removePantryIngredient(items, ingredient) ==
  IF isIngredientInPantry(items, ingredient) THEN Splice1(items, FindIndex(items, ingredient))
  ELSE items

\* classList.toggle of the common ingredient with that text, when there is one
ToggleCommon(active, text) ==
  IF text \notin CommonIngredients THEN active
  ELSE IF text \in active THEN active \ {text}
  ELSE active \cup {text}

\* the checks controlAddIngredient makes before anything is awaited
PassesChecks(p, ingredient) ==
  /\ ~isPantryFull(p)
  /\ ~isIngredientInPantry(p, normalizeIngredient(ingredient))
  /\ validateSearchInput(ingredient)

\* the variables the pantry page leaves alone
RestUnchanged ==
  UNCHANGED <<trial, ingredientSearchResults, browseSearchResults, recipeBook, mealPlan,
              mealCalendarWeek, localStorage, searchVars, nextId>>

\* controlAddIngredient(ingredient, "search") up to its await
TypeIngredient(ingredient) ==
  /\ budget.pantryOps > 0
  /\ Len(validating) < MaxValidating
  /\ budget' = [budget EXCEPT !.pantryOps = @ - 1]
  /\ validating' = IF PassesChecks(pantry, ingredient)
                     THEN Append(validating, normalizeIngredient(ingredient))
                     ELSE validating
  /\ last' = [kind |-> "typeIngredient", ingredient |-> ingredient, before |-> pantry,
              accepted |-> PassesChecks(pantry, ingredient)]
  /\ UNCHANGED <<pantry, pantryItems, activeCommon>>
  /\ RestUnchanged

\* controlAddIngredient(ingredient, "search") from its await on: the i-th call in flight learns
\* whether the API knows the ingredient (a timeout or a failed request counts as not)
ValidationDone(i, isValidIngredient) ==
  /\ i \in 1..Len(validating)
  /\ validating' = Splice1(validating, i - 1)
  /\ IF isValidIngredient
       THEN \* addIngredientToPantry(normalizedIngredient, "search")
            /\ activeCommon' = ToggleCommon(activeCommon, validating[i])
            /\ pantry' = Append(pantry, validating[i])
            /\ pantryItems' = Append(pantryItems, validating[i])
       ELSE UNCHANGED <<pantry, pantryItems, activeCommon>>
  /\ last' = [kind |-> "validationDone", ingredient |-> validating[i], before |-> pantry,
              accepted |-> isValidIngredient]
  /\ UNCHANGED budget
  /\ RestUnchanged

\* controlDeleteIngredient(ingredient)
DeleteIngredient(ingredient, active) ==
  /\ pantry' = removeIngredientFromPantry(pantry, ingredient)
  /\ pantryItems' = removePantryIngredient(pantryItems, ingredient)
  /\ activeCommon' = active
  /\ last' = [kind |-> "deleteIngredient", ingredient |-> ingredient, before |-> pantry,
              accepted |-> TRUE]

\* the click handler of addHandlerCommonIngredient on the common ingredient with text `text`
ClickCommonIngredient(text) ==
  /\ budget.pantryOps > 0
  /\ budget' = [budget EXCEPT !.pantryOps = @ - 1]
  /\ IF text \notin activeCommon
       THEN \* now active: controlAddIngredient(text, "commonIngredient")
            /\ activeCommon' = ToggleCommon(activeCommon, text)
            /\ IF PassesChecks(pantry, text)
                 THEN /\ pantry' = Append(pantry, normalizeIngredient(text))
                      /\ pantryItems' = Append(pantryItems, normalizeIngredient(text))
                 ELSE UNCHANGED <<pantry, pantryItems>>
            /\ last' = [kind |-> "commonIngredient", ingredient |-> text, before |-> pantry,
                        accepted |-> PassesChecks(pantry, text)]
       ELSE \* now inactive: controlDeleteIngredient(text)
            DeleteIngredient(text, ToggleCommon(activeCommon, text))
  /\ UNCHANGED validating
  /\ RestUnchanged

\* the click handler of addHandlerRemoveIngredient on the k-th item of the pantry list
ClickRemoveIngredient(k) ==
  /\ budget.pantryOps > 0
  /\ k \in 1..Len(pantryItems)
  /\ budget' = [budget EXCEPT !.pantryOps = @ - 1]
  \* #removeIngredientFromCommonList, then the handler
  /\ DeleteIngredient(pantryItems[k], ToggleCommon(activeCommon, pantryItems[k]))
  /\ UNCHANGED validating
  /\ RestUnchanged

\* a visit to the Ingredient Search page
PantrySession ==
  [budget |-> [searches |-> 0, planOps |-> 0, adjust |-> 0, toggles |-> 0, recipes |-> 0,
               pantryOps |-> MaxPantryOps],
   recipeBook |-> Null, mealPlan |-> Null]

PantryInit ==
  /\ Loaded(PantrySession)
  /\ \E stocked \in {<<>>, StockedPantry} :
       /\ pantry = stocked
       /\ pantryItems = stocked
  /\ activeCommon = {}
  /\ validating = <<>>
  /\ trial = NoTrial

PantryNext ==
  \/ \E ingredient \in TypedIngredients : TypeIngredient(ingredient)
  \/ \E i \in 1..MaxValidating, isValidIngredient \in BOOLEAN : ValidationDone(i, isValidIngredient)
  \/ \E text \in CommonIngredients : ClickCommonIngredient(text)
  \/ \E k \in 1..(Len(StockedPantry) + MaxPantryOps) : ClickRemoveIngredient(k)

\* the pantry page on its own: no other handler of the application writes state.pantry
PantrySpec == PantryInit /\ [][PantryNext]_vars

\* ------------------------------------------------------ the week slider
\* an ascending sort of dates
RECURSIVE SortDates(_)
SortDates(dates) ==
  IF dates = {} THEN <<>>
  ELSE LET first == CHOOSE d \in dates : \A e \in dates : d <= e
       IN  <<first>> \o SortDates(dates \ {first})

\* createSortedDateStrArr(object)
createSortedDateStrArr(object) == SortDates(DOMAIN object)

\* faulty variant: the slider wraps around at both ends
wrapSliderWeek(plan, week, direction) ==
  LET weekKeys == createSortedDateStrArr(plan)
      currentIndex == (CHOOSE i \in 1..Len(weekKeys) : weekKeys[i] = week) - 1
      directionModifier == IF direction = "previousWeek" THEN -1 ELSE 1
  IN  weekKeys[((currentIndex + directionModifier + Len(weekKeys)) % Len(weekKeys)) + 1]

\* updateSliderWeek(direction): the value of state.mealCalendarWeek afterwards
updateSliderWeek(plan, week, direction) ==
  LET weekKeys == createSortedDateStrArr(plan)
      \* Array.prototype.indexOf
      currentIndex == IF \E i \in 1..Len(weekKeys) : weekKeys[i] = week
                        THEN (CHOOSE i \in 1..Len(weekKeys) : weekKeys[i] = week) - 1
                        ELSE -1
      directionModifier == IF direction = "previousWeek" THEN -1 ELSE 1
      newIndex == currentIndex + directionModifier
  IN  IF newIndex >= 0 /\ newIndex < Len(weekKeys) THEN weekKeys[newIndex + 1] ELSE week

\* controlUpdateCalendarView(direction), for a click on an arrow of the week slider
ControlUpdateCalendarView(direction) ==
  /\ mealCalendarWeek' = updateSliderWeek(mealPlan, mealCalendarWeek, direction)
  /\ last' = [kind |-> "updateCalendarView", direction |-> direction, from |-> mealCalendarWeek]
  /\ UNCHANGED <<pantryVars, trial, ingredientSearchResults, browseSearchResults, recipeBook,
                 mealPlan, localStorage, searchVars, nextId, budget>>

\* the meal plan a session saved whose current week began on `monday`: its nine weeks, with
\* one custom meal entry at lunch of `date`
SavedPlanAround(monday, date) ==
  StringifyPlan(
    createCustomMealEntry(
      [w \in {monday + (i - 4) * 7 : i \in 0..(NumWeeks - 1)} |-> createWeeklyMealPlan(w)],
      Num(SavedEntryId),
      [date |-> date, meal |-> "lunch", mealCalories |-> "250", mealProtein |-> "10",
       mealCarbs |-> "20", mealFats |-> "5"]))

\* the sessions of the meal planner: nothing stored; a plan stored two weeks ago with an entry
\* for last week's Monday; a plan stored two weeks ago with an entry in a week that has left
\* the range since; a plan stored ten weeks ago
CalendarSessions ==
  {[budget |-> [PlanSession EXCEPT !.searches = 0], recipeBook |-> Null, mealPlan |-> stored] :
     stored \in {Null,
                 SavedPlanAround(getMondayOfTheWeek(Today) - 14, getMondayOfTheWeek(Today) - 7),
                 SavedPlanAround(getMondayOfTheWeek(Today) - 14, getMondayOfTheWeek(Today) - 42),
                 SavedPlanAround(getMondayOfTheWeek(Today) - 70, getMondayOfTheWeek(Today) - 70)}}

CalendarInit ==
  \E session \in CalendarSessions :
    /\ Loaded(session)
    /\ EmptyPantry
    /\ trial = NoTrial

\* the handlers of the Meal Plan page, on the entries and slots of the week it displays
CalendarNext ==
  \/ \E direction \in {"previousWeek", "nextWeek"} : ControlUpdateCalendarView(direction)
  \/ \E meal \in {"lunch", "dinner"} :
       ControlAddCustomMealEntry(
         [date |-> mealCalendarWeek, meal |-> meal, mealCalories |-> "250",
          mealProtein |-> "10", mealCarbs |-> "20", mealFats |-> "5"])
  \/ \E e \in {x \in RenderedEntries(mealPlan) : WeekKey(x.date) = mealCalendarWeek} :
       ControlRemoveMealEntry(e.id, e.date, e.meal)
  \/ \E e \in {x \in RenderedEntries(mealPlan) : WeekKey(x.date) = mealCalendarWeek},
        day \in {0, 1}, operation \in OperationInputs :
          ControlAddRecipeToPlan(
            e.id,
            [date |-> mealCalendarWeek + day, meal |-> "lunch", operation |-> operation,
             numServings |-> "1"],
            PlanOptions(e.date, e.meal))

CalendarSpec == CalendarInit /\ [][CalendarNext]_vars

\* ------------------------------------------ servings adjustments in a row
MaxTrialSteps == 3   \* adjustments applied to the recipe in a row

\* the recipe objects the adjustments are applied to: two the app built from API records, one
\* of them with 60 servings, and a custom recipe
TrialRecipes ==
  {createRecipeObject(Omelette, "browseRecipes", <<>>, <<>>),
   createRecipeObject(Soup, "browseRecipes", <<>>, <<>>),
   createCustomRecipe(Num(FirstUniqueId), CHOOSE inputs \in CustomRecipeInputs : inputs.sugar = "")}

\* the requests adjustServings gets: the plus and minus buttons of the Recipe Details Modal,
\* and the servings typed in the Add Recipe Modal
TrialRequests ==
  {[operation |-> operation, newServings |-> NoServings] :
     operation \in {"increaseServings", "decreaseServings"}}
    \cup {[operation |-> NoOperation, newServings |-> text] :
            text \in {"1", "2", "3", "5", "50", "51", "60"}}

\* adjustServings on the recipe under adjustment.  The recipe is `away` once an adjustment has
\* taken its servings off the original, and `back` when an adjustment then asked for the
\* original servings.
AdjustTrial(request) ==
  /\ trial.stage \in {"start", "away"}
  /\ trial.steps < MaxTrialSteps
  /\ \E adjusted \in {AdjustedRecipe(trial.current, request.operation, request.newServings)} :
       trial' = [trial EXCEPT
                   !.current = adjusted,
                   !.steps = @ + 1,
                   !.stage = IF /\ trial.stage = "away"
                                /\ calculateUpdatedServings(trial.current.servings, request.operation,
                                                            request.newServings)
                                     = trial.original.servings
                              THEN "back"
                              ELSE IF adjusted.servings # trial.original.servings THEN "away"
                              ELSE trial.stage]
  /\ last' = [kind |-> "adjustTrial", request |-> request]
  /\ UNCHANGED <<pantryVars, ingredientSearchResults, browseSearchResults, recipeBook, mealPlan,
                 mealCalendarWeek, localStorage, searchVars, nextId, budget>>

ServingsInit ==
  /\ Loaded([budget |-> [PlanSession EXCEPT !.searches = 0, !.planOps = 0],
             recipeBook |-> Null, mealPlan |-> Null])
  /\ EmptyPantry
  /\ \E recipe \in TrialRecipes :
       trial = [stage |-> "start", original |-> recipe, current |-> recipe, steps |-> 0]

ServingsNext == \E request \in TrialRequests : AdjustTrial(request)

\* adjustServings as a function of the recipe object, applied again and again
ServingsSpec == ServingsInit /\ [][ServingsNext]_vars

\* ------------------------------------------------- bookmark clicks in a row
\* a session of searches and of one bookmark click more than the other sessions make
ToggleSession ==
  [searches |-> MaxSearches, planOps |-> 0, adjust |-> 0, toggles |-> MaxToggles + 1, recipes |-> 0]

BookmarkInit ==
  /\ \E stored \in {[recipeBook |-> Null, mealPlan |-> Null],
                    [recipeBook |-> StringifyBook(SavedBook),
                     mealPlan |-> StringifyPlan(SavedOmelettePlan)]} :
       Loaded([budget |-> ToggleSession, recipeBook |-> stored.recipeBook,
               mealPlan |-> stored.mealPlan])
  /\ EmptyPantry
  /\ trial = NoTrial

BookmarkNext ==
  \/ \E mode \in Modes : StartSearch(mode)
  \/ \E mode \in Modes, data \in Responses : ResolveDetails(mode, data)
  \/ \E r \in Openable(Lists, mealPlan) \cup StillOpen : ControlBookmarks(r.id, r.options)

\* the searches and the bookmark clicks of the pages that show recipes
BookmarkSpec == BookmarkInit /\ [][BookmarkNext]_vars

\* ------------------------------------------------ a move, statement by statement
\* addRecipeToMealPlan for a scheduled recipe, up to and including its saveMealPlan(): the copy
\* is in the destination slot, the original still in its own, and the plan is stored
PlaceCopy(recipeId, userInputs, options) ==
  /\ last.kind # "movePlaced"
  /\ budget.planOps > 0
  /\ options.source = "mealPlan"
  /\ InPlan(mealPlan, userInputs.date)
  /\ Located(Lists, mealPlan, recipeId, options)
  /\ ~isRecipeAlreadyInMealSlot(mealPlan, recipeId, userInputs.date, userInputs.meal,
                                userInputs.operation)
  /\ \E plan \in {placeRecipeCopy(Lists, mealPlan, recipeId, userInputs, options)} :
       /\ PlanSize(plan) <= MaxPlanEntries + 1
       /\ SavePlan(plan)
  /\ budget' = [budget EXCEPT !.planOps = @ - 1]
  /\ last' = [kind |-> "movePlaced", id |-> recipeId, userInputs |-> userInputs,
              options |-> options]
  /\ UNCHANGED <<pantryVars, trial, ingredientSearchResults, browseSearchResults, recipeBook,
                 mealCalendarWeek, searchVars, nextId>>

\* the rest of addRecipeToMealPlan: deleteRecipeFromMealPlan takes the original out and saves
DeleteOriginal ==
  /\ last.kind = "movePlaced"
  /\ SavePlan(deleteRecipeFromMealPlan(mealPlan, last.id, last.options.currentDate,
                                       last.options.currentMeal))
  /\ last' = [last EXCEPT !.kind = "addRecipeToPlan"]
  /\ UNCHANGED <<pantryVars, trial, ingredientSearchResults, browseSearchResults, recipeBook,
                 mealCalendarWeek, searchVars, nextId, budget>>

\* the page goes away before deleteRecipeFromMealPlan has run, and is loaded again: init()
\* builds the state from localStorage
FailAndRestart ==
  /\ last.kind = "movePlaced"
  /\ recipeBook' = initializeRecipeBook(localStorage.recipeBook)
  /\ mealPlan' = initializeMealPlan(localStorage.mealPlan)
  /\ mealCalendarWeek' = getMondayOfTheWeek(Today)
  /\ ingredientSearchResults' = <<>>
  /\ browseSearchResults' = <<>>
  /\ last' = [last EXCEPT !.kind = "restartedMidMove"]
  /\ UNCHANGED <<pantryVars, trial, localStorage, searchVars, nextId, budget>>

MoveInit ==
  /\ \E stored \in {[recipeBook |-> StringifyBook(SavedBook),
                     mealPlan |-> StringifyPlan(SavedOmelettePlan)],
                    [recipeBook |-> Null, mealPlan |-> StringifyPlan(SavedCustomPlan)]} :
       Loaded([budget |-> [PlanSession EXCEPT !.searches = 0],
               recipeBook |-> stored.recipeBook, mealPlan |-> stored.mealPlan])
  /\ EmptyPantry
  /\ trial = NoTrial

MoveNext ==
  \/ \E e \in RenderedEntries(mealPlan), slot \in SlotInputs,
        operation \in OperationInputs, numServings \in ServingsInputs :
          PlaceCopy(e.id,
                    [date |-> slot.date, meal |-> slot.meal, operation |-> operation,
                     numServings |-> numServings],
                    PlanOptions(e.date, e.meal))
  \/ DeleteOriginal
  \/ FailAndRestart
  \/ \E inputs \in CustomEntryInputs :
       last.kind # "movePlaced" /\ ControlAddCustomMealEntry(inputs)

\* the meal plan under moves that can be cut short between their two saves
MoveSpec == MoveInit /\ [][MoveNext]_vars

\* ------------------------------------- ingredient availability on its own
MaxPantry == 2   \* ingredients in the pantry the availability is computed against

\* what the pantry holds: names the user added, normalized, no name twice
PantryNames == {"onion", "penne", "cheese", "butter", "milk", "egg"}

Pantries ==
  {<<>>} \cup {<<a>> : a \in PantryNames}
         \cup ({<<a, b>> : a, b \in PantryNames} \ {<<a, a>> : a \in PantryNames})

\* the ingredient names of API recipes
ApiIngredientNames ==
  {"shallots", "spaghetti", "parmesan", "parmesan cheese", "margarine", "almond milk", "eggs",
   "flour", "brioche"}

\* getIngredientAvailability(apiIngredientName) against state.pantry
CheckAvailability(apiIngredientName) ==
  /\ trial' = [stage |-> "availability", ingredient |-> apiIngredientName,
               result |-> getIngredientAvailability(apiIngredientName, pantry)]
  /\ last' = [kind |-> "checkAvailability", ingredient |-> apiIngredientName]
  /\ UNCHANGED <<pantryVars, ingredientSearchResults, browseSearchResults, recipeBook, mealPlan,
                 mealCalendarWeek, localStorage, searchVars, nextId, budget>>

AvailabilityInit ==
  /\ Loaded([budget |-> [PlanSession EXCEPT !.searches = 0, !.planOps = 0],
             recipeBook |-> Null, mealPlan |-> Null])
  /\ pantry \in {p \in Pantries : Len(p) <= MaxPantry}
  /\ pantryItems = pantry
  /\ activeCommon = {pantry[i] : i \in 1..Len(pantry)} \cap CommonIngredients
  /\ validating = <<>>
  /\ trial = NoTrial

AvailabilityNext == \E apiIngredientName \in ApiIngredientNames : CheckAvailability(apiIngredientName)

\* getIngredientAvailability as a function of the ingredient name and the pantry
AvailabilitySpec == AvailabilityInit /\ [][AvailabilityNext]_vars

\* ------------------------------------------------- the searches on their own
\* what the service can send besides the complete recipes: records with a part missing or empty
ApiVariants ==
  {[Omelette EXCEPT !.id = Num(11), !.analyzedInstructions = Arr(<<[steps |-> Arr(<<>>)]>>)],
   [Omelette EXCEPT !.id = Num(12), !.analyzedInstructions = Arr(<<>>)],
   [Omelette EXCEPT !.id = Num(13), !.extendedIngredients = Arr(<<>>)],
   [Omelette EXCEPT !.id = Num(14), !.extendedIngredients = Undefined],
   [Omelette EXCEPT !.id = Num(15), !.servings = Undefined],
   [Omelette EXCEPT !.id = Num(16),
                    !.nutrition.nutrients = <<ApiNutrient("Calories", 400), ApiNutrient("Fat", 11),
                                              ApiNutrient("Carbohydrates", 39)>>],
   [Omelette EXCEPT !.id = Num(17), !.nutrition.caloricBreakdown.percentFat = Undefined],
   [Omelette EXCEPT !.id = Undefined]}

\* the bodies a details request of these searches can come back with
SearchResponses == Responses \cup {<<recipe>> : recipe \in ApiVariants}

\* the recipe book an earlier session left after the user had raised the servings of its recipe
AdjustedBook == <<deepCopy(AdjustedRecipe(SavedOmelette, "increaseServings", NoServings))>>

SearchInit ==
  /\ \E savedRecipeBook \in {Null, StringifyBook(SavedBook), StringifyBook(AdjustedBook)} :
       Loaded([budget |-> [BrowseSession EXCEPT !.adjust = 0, !.toggles = 0],
               recipeBook |-> savedRecipeBook, mealPlan |-> Null])
  /\ pantry \in {<<>>, <<"egg">>}
  /\ pantryItems = pantry
  /\ activeCommon = {pantry[i] : i \in 1..Len(pantry)} \cap CommonIngredients
  /\ validating = <<>>
  /\ trial = NoTrial

SearchNext ==
  \/ \E mode \in Modes : StartSearch(mode)
  \/ \E mode \in Modes, data \in SearchResponses : ResolveDetails(mode, data)
  \/ \E mode \in Modes : SearchFails(mode)
  \/ \E mode \in Modes : TimeoutFires(mode)
  \/ \E mode \in Modes, data \in SearchResponses : ResolveLate(mode, data)
  \/ \E mode \in Modes : FailLate(mode)

\* controlIngredientSearch and controlBrowseRecipes with the pantry and the recipe book as the
\* user left them
SearchSpec == SearchInit /\ [][SearchNext]_vars

\* setTimeout always calls back: the timer of a search that is still waiting fires
LiveSearchSpec == SearchSpec /\ \A mode \in Modes : WF_vars(TimeoutFires(mode))

\* ============================================================== claims
\* the three browse collections after the step
ListsAfter ==
  [ingredientSearch |-> ingredientSearchResults',
   browseRecipeSearch |-> browseSearchResults',
   recipeBook |-> recipeBook']

\* the days that hold something before or after the step
TouchedDays == BusyDays(mealPlan) \cup BusyDays(mealPlan')

\* one day of a plan
Day(plan, date) == plan[WeekKey(date)][date]

\* the entries of a slot without the one at position i
Without(entries, i) == SubSeq(entries, 1, i - 1) \o SubSeq(entries, i + 1, Len(entries))

\* is the value a number in [MinServings, MaxServings]
InServingsRange(v) ==
  IsFinite(v) /\ ~JsLess(v, Num(MinServings)) /\ ~JsLess(Num(MaxServings), v)

\* the arithmetic sum of a field over recipes
RECURSIVE SumField(_, _)
SumField(recipes, key) ==
  IF recipes = <<>> THEN Num(0)
  ELSE LET rest == SumField(Tail(recipes), key)
           v == Head(recipes).nutr[key]
       IN  IF IsFinite(v) THEN Rat(v.n * rest.d + rest.n * v.d, v.d * rest.d) ELSE rest

\* the last step was a completed operation on the meal plan
PlanOperationDone ==
  last.kind \in {"addRecipeToPlan", "removeMealEntry", "addCustomMealEntry"}
    \/ (last.kind = "updateServings" /\ last.options.source = "mealPlan")

\* the step was a move of a scheduled recipe into another slot than its own
MovedElsewhere(l) ==
  /\ l.kind = "addRecipeToPlan"
  /\ l.options.source = "mealPlan"
  /\ <<l.options.currentDate, l.options.currentMeal>> # <<l.userInputs.date, l.userInputs.meal>>

\* the step was a move of a scheduled recipe into the slot it is already in
MovedOntoItself(l) ==
  /\ l.kind = "addRecipeToPlan"
  /\ l.options.source = "mealPlan"
  /\ <<l.options.currentDate, l.options.currentMeal>> = <<l.userInputs.date, l.userInputs.meal>>

\* C1: after every completed meal-plan operation (add, move, remove, custom meal entry,
\* servings adjustment of a scheduled instance), each of nutrition.calories, protein, carbs
\* and fats of every day is the number that is the sum of that field over all entries of the
\* four meal slots of the day.  The code does not keep this: a recipe whose API record has no
\* Calories nutrient carries calories "-", and `0 + "-"` makes the day's total the string "0-".
C1_NutritionIsSumOfEntries ==
  PlanOperationDone =>
    \A d \in BusyDays(mealPlan), k \in NutritionNames :
      /\ IsFinite(Day(mealPlan, d).nutrition[k])
      /\ Day(mealPlan, d).nutrition[k] = SumField(DayRecipes(Day(mealPlan, d)), k)

\* C2: moving a scheduled recipe from slot (D1,M1) to a different slot (D2,M2) leaves no
\* instance of the id in (D1,M1) and exactly one in (D2,M2); a day affected holds as many
\* instances of the id as before (one fewer in D1 and one more in D2 when the days differ), less
\* those a 'replace' cleared from (D2,M2), and the nutrition totals of the affected days are the
\* totals of exactly the entries the days then hold.
C2_MoveLeavesOneInstance ==
  [][MovedElsewhere(last') =>
       LET id == last'.id
           D1 == last'.options.currentDate
           M1 == last'.options.currentMeal
           D2 == last'.userInputs.date
           M2 == last'.userInputs.meal
           held(plan, d) == Count(DayRecipes(Day(plan, d)), id)
       IN  /\ Count(Slot(mealPlan', D1, M1), id) = 0
           /\ Count(Slot(mealPlan', D2, M2), id) = 1
           /\ IF D1 = D2
                THEN held(mealPlan', D1) = held(mealPlan, D1) - Count(Slot(mealPlan, D2, M2), id)
                ELSE /\ held(mealPlan', D1) = held(mealPlan, D1) - 1
                     /\ held(mealPlan', D2)
                          = held(mealPlan, D2) + 1 - Count(Slot(mealPlan, D2, M2), id)
           /\ \A d \in {D1, D2}, k \in NutritionNames :
                /\ Day(mealPlan', d).nutrition[k]
                     = Accumulate(Num(0), DayRecipes(Day(mealPlan', d)), k)
                /\ (\A i \in 1..Len(DayRecipes(Day(mealPlan', d))) :
                      IsFinite(DayRecipes(Day(mealPlan', d))[i].nutr[k]))
                     => Day(mealPlan', d).nutrition[k]
                          = SumField(DayRecipes(Day(mealPlan', d)), k)
     ]_vars

\* C2 witness: a recipe of the app has just been moved to another meal of the same day, and the
\* day's protein total is that of the one instance
C2_MovedWithinDay ==
  /\ MovedElsewhere(last)
  /\ last.options.currentDate = last.userInputs.date
  /\ Len(DayRecipes(Day(mealPlan, last.userInputs.date))) = 1
  /\ LET moved == getRecipeFromMealPlan(mealPlan, last.id, last.userInputs.date, last.userInputs.meal)
     IN  /\ moved.origin = "app"
         /\ Day(mealPlan, last.userInputs.date).nutrition["protein"] = moved.nutr["protein"]

\* C3: after controlBookmarks toggles recipe X from any source, every copy with id X in the
\* ingredient search results, the browse search results, the recipe book and every slot of
\* every day of every week of the plan carries the negation of the status the toggled copy had.
C3_BookmarkSynchronized ==
  [][last'.kind = "bookmarks" =>
       LET id == last'.id
           newStatus == ~getRecipe(Lists, mealPlan, id, last'.options).isBookmarked
       IN  /\ \A s \in BrowseSources : \A i \in 1..Len(ListsAfter[s]) :
                ListsAfter[s][i].id = id => ListsAfter[s][i].isBookmarked = newStatus
           /\ \A d \in BusyDays(mealPlan'), m \in MealNames :
                \A i \in 1..Len(Slot(mealPlan', d, m)) :
                  Slot(mealPlan', d, m)[i].id = id
                    => Slot(mealPlan', d, m)[i].isBookmarked = newStatus
     ]_vars

\* C3 witness: a bookmark was just toggled on a recipe that has copies in a results collection
\* and in the meal plan, and both carry the new status
C3_ToggledWithCopies ==
  /\ last.kind = "bookmarks"
  /\ last.options.source \in {"ingredientSearch", "browseRecipeSearch"}
  /\ \E e \in RenderedEntries(mealPlan) :
       /\ e.id = last.id
       /\ Slot(mealPlan, e.date, e.meal)[e.index].isBookmarked = last.isNowBookmarked
  /\ getRecipeFromBrowse(Lists, last.id, last.options.source).isBookmarked = last.isNowBookmarked

\* C4: adjusting the servings of a scheduled instance at (D1,M1), by the increase/decrease
\* operation or by the adjustment addRecipeToMealPlan applies to the copy it placed, changes
\* nothing in the ingredient search results, the browse search results and the recipe book,
\* and no entry of any other slot (the slot a move takes the recipe from only loses that entry).
C4_PlanAdjustmentIsLocal ==
  [][((last'.kind = "updateServings" /\ last'.options.source = "mealPlan")
        \/ last'.kind = "addRecipeToPlan") =>
       LET target == IF last'.kind = "updateServings"
                       THEN <<last'.options.currentDate, last'.options.currentMeal>>
                       ELSE <<last'.userInputs.date, last'.userInputs.meal>>
           isMove == last'.kind = "addRecipeToPlan" /\ last'.options.source = "mealPlan"
           from == <<last'.options.currentDate, last'.options.currentMeal>>
       IN  /\ UNCHANGED <<ingredientSearchResults, browseSearchResults, recipeBook>>
           /\ \A d \in TouchedDays, m \in MealNames :
                <<d, m>> # target =>
                  IF isMove /\ <<d, m>> = from
                    THEN Slot(mealPlan', d, m)
                           = Without(Slot(mealPlan, d, m), IdIndex(Slot(mealPlan, d, m), last'.id))
                    ELSE Slot(mealPlan', d, m) = Slot(mealPlan, d, m)
     ]_vars

\* C4 witness: the servings of one scheduled instance were just changed by the minus button
\* while the recipe book and another slot hold copies of the same recipe with other servings
C4_AdjustedAmongCopies ==
  /\ last.kind = "updateServings"
  /\ last.options.source = "mealPlan"
  /\ HasId(recipeBook, last.id)
  /\ LET target == getRecipeFromMealPlan(mealPlan, last.id, last.options.currentDate,
                                         last.options.currentMeal)
     IN  /\ target.servings = Num(MaxServings - 1)
         /\ getRecipeFromBrowse(Lists, last.id, "recipeBook").servings # target.servings
         /\ \E e \in RenderedEntries(mealPlan) :
              /\ e.id = last.id
              /\ <<e.date, e.meal>> # <<last.options.currentDate, last.options.currentMeal>>
              /\ Slot(mealPlan, e.date, e.meal)[e.index].servings # target.servings

\* the ingredient quantities of a recipe, in order
Quantities(recipe) ==
  [i \in 1..Len(recipe.ingredients.items) |-> recipe.ingredients.items[i].quantity]

\* C5: after a servings adjustment in a browsing context (source ingredientSearch,
\* browseRecipeSearch or recipeBook) whose computed value is accepted, the adjusted copy has
\* the computed servings and every copy of that id in the ingredient search results, the browse
\* search results and the recipe book has its servings, ingredient quantities and nutrients.
C5_BrowseAdjustmentSynchronized ==
  [][(last'.kind = "updateServings" /\ last'.options.source \in BrowseSources) =>
       LET id == last'.id
           before == getRecipeFromBrowse(Lists, id, last'.options.source)
           computed == IF last'.operation = "increaseServings"
                         THEN JsAdd(before.servings, Num(1))
                         ELSE JsSub(before.servings, Num(1))
           after == getRecipeFromBrowse(ListsAfter, id, last'.options.source)
       IN  InServingsRange(computed) =>
             /\ after.servings = computed
             /\ \A s \in BrowseSources : \A i \in 1..Len(ListsAfter[s]) :
                  ListsAfter[s][i].id = id =>
                    /\ ListsAfter[s][i].servings = after.servings
                    /\ Quantities(ListsAfter[s][i]) = Quantities(after)
                    /\ ListsAfter[s][i].nutr = after.nutr
     ]_vars

\* C5 witness: the plus button was just used on an ingredient-search result of a recipe that
\* the browse results and the recipe book hold too, and all three copies carry the new servings
C5_AdjustedEverywhere ==
  /\ last.kind = "updateServings"
  /\ last.options.source = "ingredientSearch"
  /\ last.operation = "increaseServings"
  /\ \A s \in BrowseSources :
       /\ HasId(Lists[s], last.id)
       /\ getRecipeFromBrowse(Lists, last.id, s).servings = JsAdd(Omelette.servings, Num(1))

\* C6: after every servings adjustment (plus, minus, or the absolute value given when a recipe
\* is placed in the plan) the recipe's servings lie in [1, 50].  The code does not keep this: a
\* recipe the API delivers with more than 50 servings passes isValidRecipe, and an adjustment
\* that leaves it alone leaves it out of range.
C6_ServingsInRange ==
  /\ last.kind = "updateServings" =>
       InServingsRange(getRecipe(Lists, mealPlan, last.id, last.options).servings)
  /\ (last.kind = "addRecipeToPlan" /\ ~MovedOntoItself(last)) =>
       LET placed == getRecipeFromMealPlan(mealPlan, last.id, last.userInputs.date,
                                           last.userInputs.meal)
       IN  placed.origin # "customMealEntry" => InServingsRange(placed.servings)

\* the other half of C6, which the code keeps: an adjustment whose computed value is outside
\* [1, 50] leaves the three browse collections and every slot of the plan as they were
C6_RejectedAdjustmentChangesNothing ==
  [][last'.kind = "updateServings" =>
       LET before == getRecipe(Lists, mealPlan, last'.id, last'.options)
           computed == IF last'.operation = "increaseServings"
                         THEN JsAdd(before.servings, Num(1))
                         ELSE JsSub(before.servings, Num(1))
       IN  ~InServingsRange(computed) =>
             /\ UNCHANGED <<ingredientSearchResults, browseSearchResults, recipeBook>>
             /\ \A d \in TouchedDays, m \in MealNames :
                  Slot(mealPlan', d, m) = Slot(mealPlan, d, m)
     ]_vars

\* C7: a request to add a recipe with operation 'add' to a slot that already holds an entry
\* with the same id is rejected with the 'already exists in the meal slot' error, and the meal
\* plan, its nutrition totals and the persisted meal-plan record are unchanged.
C7_DuplicateAddRejected ==
  [][(/\ last'.kind \in {"addRecipeToPlan", "addRejected"}
      /\ last'.userInputs.operation = "add"
      /\ \E i \in 1..Len(Slot(mealPlan, last'.userInputs.date, last'.userInputs.meal)) :
           Slot(mealPlan, last'.userInputs.date, last'.userInputs.meal)[i].id = last'.id)
       => /\ last'.kind = "addRejected"
          /\ UNCHANGED <<mealPlan, localStorage>>
     ]_vars

\* C7 witness: an 'add' of a recipe to a slot that holds it was just rejected
C7_AddWasRejected ==
  /\ last.kind = "addRejected"
  /\ last.userInputs.operation = "add"
  /\ Count(Slot(mealPlan, last.userInputs.date, last.userInputs.meal), last.id) = 1

\* C8: addRecipeToMealPlan with operation 'replace' leaves the target slot holding exactly one
\* entry, the added recipe.  The code does not keep this when the recipe is moved onto the slot
\* it is in: the copy just placed is the entry deleteRecipeFromMealPlan then removes.
C8_ReplaceLeavesTheRecipe ==
  (last.kind = "addRecipeToPlan" /\ last.userInputs.operation = "replace") =>
    /\ Len(Slot(mealPlan, last.userInputs.date, last.userInputs.meal)) = 1
    /\ Slot(mealPlan, last.userInputs.date, last.userInputs.meal)[1].id = last.id

\* C9: deleteRecipeFromMealPlan(id, date, meal), as the remove button and a move to another
\* slot call it, removes from that slot exactly one entry, the first whose id equals id, and
\* no entry with a different id; every other slot keeps its entries (the slot a move places
\* the recipe in excepted).
C9_DeleteRemovesFirstMatch ==
  [][(last'.kind = "removeMealEntry" \/ MovedElsewhere(last')) =>
       LET id == last'.id
           date == last'.options.currentDate
           meal == last'.options.currentMeal
           entries == Slot(mealPlan, date, meal)
           first == CHOOSE i \in 1..Len(entries) :
                      entries[i].id = id /\ \A j \in 1..(i - 1) : entries[j].id # id
           placedIn == IF last'.kind = "removeMealEntry" THEN <<>>
                       ELSE <<last'.userInputs.date, last'.userInputs.meal>>
       IN  /\ \E i \in 1..Len(entries) : entries[i].id = id
           /\ Slot(mealPlan', date, meal) = Without(entries, first)
           /\ \A d \in TouchedDays, m \in MealNames :
                (<<d, m>> # <<date, meal>> /\ <<d, m>> # placedIn)
                  => Slot(mealPlan', d, m) = Slot(mealPlan, d, m)
     ]_vars

\* C9 witness: the custom meal entry an earlier session saved was just removed from a slot in
\* which a recipe of the app came after it, and that recipe is what the slot holds now
C9_RemovedTheFirstOfTwo ==
  /\ last.kind = "removeMealEntry"
  /\ last.id = Num(SavedEntryId)
  /\ Ids(Slot(mealPlan, last.options.currentDate, last.options.currentMeal)) = <<Omelette.id>>

\* C10: after addRecipeToMealPlan places a recipe whose origin is not customMealEntry with
\* numServings n in [1, 50] (a move onto the recipe's own slot, which leaves no new instance,
\* aside), the slot holds one instance of the id; it has servings n, its ingredient quantities
\* are the source's times n over the source's servings, and so are its numeric nutrients (a
\* nutrient the source has no number for stays as it is), whatever the source's servings are.
C10_PlacedInstanceIsScaled ==
  [][(last'.kind = "addRecipeToPlan" /\ ~MovedOntoItself(last')) =>
       LET id == last'.id
           source == getRecipe(Lists, mealPlan, id, last'.options)
           n == ToNumber(last'.userInputs.numServings)
           slot == Slot(mealPlan', last'.userInputs.date, last'.userInputs.meal)
           placed == slot[CHOOSE i \in 1..Len(slot) : slot[i].id = id]
           scaled(v) == JsDiv(JsMul(v, n), source.servings)
       IN  (source.origin # "customMealEntry" /\ InServingsRange(n)) =>
             /\ Count(slot, id) = 1
             /\ placed.servings = n
             /\ Len(placed.ingredients.items) = Len(source.ingredients.items)
             /\ \A i \in 1..Len(source.ingredients.items) :
                  placed.ingredients.items[i].quantity = scaled(source.ingredients.items[i].quantity)
             /\ \A k \in NutrientNames :
                  placed.nutr[k] = IF IsFinite(source.nutr[k]) THEN scaled(source.nutr[k])
                                   ELSE source.nutr[k]
     ]_vars

\* C10 witness: a search result whose servings the plus button had raised was just placed in
\* the plan for 1 serving, and the instance has a third of the source's protein
C10_PlacedFromAdjustedSource ==
  /\ last.kind = "addRecipeToPlan"
  /\ last.options.source \in BrowseSources
  /\ last.userInputs.numServings = "1"
  /\ LET source == getRecipeFromBrowse(Lists, last.id, last.options.source)
         placed == getRecipeFromMealPlan(mealPlan, last.id, last.userInputs.date,
                                         last.userInputs.meal)
     IN  /\ source.servings = Num(3)
         /\ placed.servings = Num(1)
         /\ JsMul(placed.nutr["protein"], Num(3)) = source.nutr["protein"]

\* C11: in every reachable state the pantry holds at most 25 ingredients, also when an
\* ingredient is submitted while an earlier one still awaits the API.  The code does not keep
\* this: controlAddIngredient tests isPantryFull before its await only, so two submissions that
\* both found 24 ingredients are both pushed.
C11_PantryWithinCapacity == Len(pantry) <= PantryFullAbove + 1

\* C12: in every reachable state no normalized name is in the pantry twice, also when an
\* ingredient is submitted again while its first submission still awaits the API.  The code
\* does not keep this: isDuplicateIngredient is tested before the await only.
C12_PantryHasNoDuplicate ==
  \A i, j \in 1..Len(pantry) : pantry[i] = pantry[j] => i = j

\* C20: a pantry removal removes the first occurrence of the ingredient named and nothing
\* else; a removal request for an ingredient that is not in the pantry leaves the pantry as it
\* was.  The code does not keep this: findIndex yields -1 and splice(-1, 1) removes the last
\* ingredient of the pantry.
C20_RemovalTakesOnlyTheNamed ==
  last.kind = "deleteIngredient" =>
    pantry = IF isIngredientInPantry(last.before, last.ingredient)
               THEN Without(last.before, FindIndex(last.before, last.ingredient) + 1)
               ELSE last.before

\* C13: after initializeMealPlan, and after any sequence of plan operations and week
\* navigation, state.mealPlan has exactly 9 week keys, the Mondays from 4 weeks before to 4
\* weeks after the current week's Monday, whatever weeks the stored plan covered; right after
\* initialization a week stored under one of these keys is the stored week, and every other
\* week is empty with its 5 weekdays.
C13_NineWeeksAroundToday ==
  /\ DOMAIN mealPlan = {getMondayOfTheWeek(Today) + 7 * k : k \in (-4)..4}
  /\ Cardinality(DOMAIN mealPlan) = NumWeeks
  /\ last.kind = "init" =>
       \A w \in DOMAIN mealPlan :
         IF localStorage.mealPlan # Null /\ w \in DOMAIN localStorage.mealPlan.value
           THEN mealPlan[w] = localStorage.mealPlan.value[w]
           ELSE /\ DOMAIN mealPlan[w] = {w + i : i \in 0..(WeekDays - 1)}
                /\ \A d \in DOMAIN mealPlan[w] : mealPlan[w][d] = createEmptyMealObj

\* C13 witness: the stored plan covered other weeks than the plan in memory, the week with the
\* stored entry was taken over, and the user has navigated and added an entry since
C13_LoadedFromOlderRange ==
  /\ last.kind = "updateCalendarView"
  /\ PlanSize(mealPlan) = MaxPlanEntries
  /\ \E e \in RenderedEntries(mealPlan) : e.id = Num(SavedEntryId) /\ e.date < getMondayOfTheWeek(Today)
  /\ mealCalendarWeek # getMondayOfTheWeek(Today)

\* C14: updateSliderWeek moves the displayed week to the resident week key next before
\* ('previousWeek') or next after ('nextWeek') it, and leaves it alone when there is none; the
\* displayed week is a resident key after every step, and navigation changes no week of the plan.
C14_SliderMovesOneWeek ==
  [][/\ mealCalendarWeek' \in DOMAIN mealPlan'
     /\ last'.kind = "updateCalendarView" =>
          LET before == {w \in DOMAIN mealPlan : w < mealCalendarWeek}
              after == {w \in DOMAIN mealPlan : w > mealCalendarWeek}
          IN  /\ mealPlan' = mealPlan
              /\ mealCalendarWeek' =
                   IF last'.direction = "previousWeek"
                     THEN IF before = {} THEN mealCalendarWeek
                          ELSE CHOOSE w \in before : \A v \in before : v <= w
                     ELSE IF after = {} THEN mealCalendarWeek
                          ELSE CHOOSE w \in after : \A v \in after : w <= v
    ]_vars

\* C14 witness: 'nextWeek' was just clicked with the last resident week displayed
C14_NextAtLastWeek ==
  /\ last.kind = "updateCalendarView"
  /\ last.direction = "nextWeek"
  /\ last.from = getMondayOfTheWeek(Today) + 28
  /\ mealCalendarWeek = last.from

\* C15: in every reachable state the recipe book holds at most one entry per recipe id.
C15_RecipeBookUniqueById ==
  \A i, j \in 1..Len(recipeBook) : recipeBook[i].id = recipeBook[j].id => i = j

\* C15 witness: a recipe was just bookmarked into a recipe book that holds a custom recipe
C15_BookmarkedBesideCustomRecipe ==
  /\ last.kind = "bookmarks"
  /\ last.isNowBookmarked
  /\ Len(recipeBook) > 1
  /\ \E i \in 1..Len(recipeBook) : recipeBook[i].origin = "user"

\* the user operations that write the recipe book or the meal plan
StoringOperations ==
  {"bookmarks", "addCustomRecipe", "addRecipeToPlan", "removeMealEntry", "addCustomMealEntry",
   "updateServings"}

\* C16: after each completed user operation that changes the recipe book or the meal plan, the
\* stored 'recipeBook' record is the serialization of the recipe book in memory and the stored
\* 'mealPlan' record that of the meal plan in memory; a record differs from the serialization
\* only where the operation changed neither the collection nor the record.
C16_ChangesAreStored ==
  [][last'.kind \in StoringOperations =>
       /\ \/ localStorage'.recipeBook = StringifyBook(recipeBook')
          \/ (recipeBook' = recipeBook /\ localStorage'.recipeBook = localStorage.recipeBook)
       /\ \/ localStorage'.mealPlan = StringifyPlan(mealPlan')
          \/ (mealPlan' = mealPlan /\ localStorage'.mealPlan = localStorage.mealPlan)
    ]_vars

\* C16 witness: the servings of a bookmarked recipe were just adjusted from a browse source,
\* and the stored recipe book is that of memory, with the new servings
C16_AdjustedBookmarkStored ==
  /\ last.kind = "updateServings"
  /\ last.options.source \in BrowseSources
  /\ HasId(recipeBook, last.id)
  /\ getRecipeFromBrowse(Lists, last.id, "recipeBook").servings # Omelette.servings
  /\ localStorage.recipeBook = StringifyBook(recipeBook)

\* C17: when the detail retrieval of a search finds no valid recipe, loadRecipeDetails signals
\* {noResults: true} and the results collection of the search is empty afterwards.  The code
\* does not keep this when two searches of a mode overlap: the recipes the other search has
\* put in the collection since it was cleared stay in it.
C17_NoResultsLeavesCollectionEmpty ==
  (last.kind = "resolveDetails" /\ last.noResults) =>
    (IF last.mode = "ingredientSearch" THEN ingredientSearchResults ELSE browseSearchResults) = <<>>

\* C19: a move with operation 'replace' onto the slot the recipe is scheduled in leaves exactly
\* one instance of the recipe in that slot.  The code does not keep this:
\* deleteRecipeFromMealPlan removes the copy addRecipeToMealPlan has just placed.
C19_ReplaceOntoOwnSlotKeepsRecipe ==
  (MovedOntoItself(last) /\ last.userInputs.operation = "replace") =>
    Count(Slot(mealPlan, last.userInputs.date, last.userInputs.meal), last.id) = 1

\* the recipe under adjustment has its original servings, every ingredient quantity and every
\* numeric nutrient back
TrialRestored ==
  /\ trial.current.servings = trial.original.servings
  /\ trial.current.ingredients = trial.original.ingredients
  /\ \A k \in NutrientNames :
       IsFinite(trial.original.nutr[k]) => trial.current.nutr[k] = trial.original.nutr[k]

\* C18: for any recipe with servings s and any s' in [1, 50], adjusting the servings from s to
\* s' and then back to s returns the servings to s and every ingredient quantity and numeric
\* nutrient to its original value.  The code does not keep this for a recipe whose servings are
\* outside [1, 50]: the adjustment back to s is refused.
C18_RoundTripRestores == trial.stage = "back" => TrialRestored

\* the part of C18 the code keeps: the round trip restores every recipe whose original
\* servings are in [1, 50]
C18_RoundTripRestoresWithinRange ==
  (trial.stage = "back" /\ InServingsRange(trial.original.servings)) => TrialRestored

\* the results of the search mode
ResultsOf(mode) ==
  IF mode = "ingredientSearch" THEN ingredientSearchResults ELSE browseSearchResults

\* C21: once a details fetch has lost the race against its timeout, its later resolution adds
\* no entry to ingredientSearchResults or browseSearchResults.  The code does not keep this:
\* nothing cancels the fetch, and loadRecipeDetails populates the results when it resolves.
C21_LateResolutionAddsNothing ==
  last.kind = "resolveLate" => ResultsOf(last.mode) = last.before

\* C22: ingredientSearchResults and browseSearchResults never hold two entries with the same
\* id, in any interleaving of searches.  The code does not keep this: populateSearchResults
\* pushes without looking, so two overlapping searches that return the same recipe leave it
\* in the results twice.
C22_ResultsUniqueById ==
  \A mode \in Modes :
    \A i, j \in 1..Len(ResultsOf(mode)) :
      ResultsOf(mode)[i].id = ResultsOf(mode)[j].id => i = j

\* the copy says it is bookmarked exactly when the recipe book holds an entry with its id
FlagMatchesBook(recipe) == recipe.isBookmarked <=> HasId(recipeBook, recipe.id)

\* C23: in every reachable state every recipe copy (ingredient search results, browse search
\* results, recipe book, every meal-plan slot) has isBookmarked true exactly when the recipe
\* book holds an entry with the same id.
C23_FlagsMatchTheBook ==
  /\ \A s \in BrowseSources : \A i \in 1..Len(Lists[s]) : FlagMatchesBook(Lists[s][i])
  /\ \A e \in RenderedEntries(mealPlan) :
       FlagMatchesBook(Slot(mealPlan, e.date, e.meal)[e.index])

\* C23 witness: a recipe that has a copy in a search result and an instance in the meal plan
\* was just taken out of the recipe book
C23_UnbookmarkedWithCopiesAround ==
  /\ last.kind = "bookmarks"
  /\ ~last.isNowBookmarked
  /\ \E mode \in Modes : HasId(ResultsOf(mode), last.id)
  /\ \E e \in RenderedEntries(mealPlan) : e.id = last.id

\* C24: toggling the bookmark of the same recipe twice in succession from the same source
\* restores the recipe book's membership and every copy's isBookmarked flag.  The code does
\* not keep this for the recipe book as the source: the first toggle takes the recipe out of
\* the book, and the second one, made in the Recipe Details Modal that is still open, throws.
C24_TwoTogglesRestore ==
  (last.kind \in {"bookmarks", "bookmarksThrew"} /\ last.again) =>
     BookmarkView(Lists, mealPlan, last.id) = last.first

\* the part of C24 the code keeps: two toggles in succession from the search results or from a
\* meal-plan slot restore the membership and the flags
C24_TwoTogglesRestoreOutsideTheBook ==
  (/\ last.kind \in {"bookmarks", "bookmarksThrew"}
   /\ last.again
   /\ last.options.source # "recipeBook") =>
     BookmarkView(Lists, mealPlan, last.id) = last.first

\* the daily-value percentages of the recipe are those of its own macros
PercentDVOfOwnMacros(recipe) ==
  /\ recipe.percentDVProtein = PercentDV(recipe.nutr["protein"], RECOMMENDED_PROTEIN_DV)
  /\ recipe.percentDVFats = PercentDV(recipe.nutr["fats"], RECOMMENDED_FATS_DV)
  /\ recipe.percentDVCarbs = PercentDV(recipe.nutr["carbs"], RECOMMENDED_CARBS_DV)

\* C25: after any sequence of servings adjustments every recipe copy in
\* ingredientSearchResults, browseSearchResults and recipeBook has daily-value percentages
\* consistent with its own macros, copies updated by propagation included.  The code does not
\* keep this: updateProperties copies the servings, the ingredients and the nutrients to the
\* other copies and leaves their percentages as they were.
C25_PercentDVFollowsMacros ==
  \A s \in BrowseSources : \A i \in 1..Len(Lists[s]) : PercentDVOfOwnMacros(Lists[s][i])

\* C26: a move is not atomic.  Between placing the copy and deleting the original, the plan
\* already written to storage holds the recipe in both the source and the destination slot,
\* and after a failure at that point and a restart from storage both instances are present.
C26_MoveCutShortLeavesBoth ==
  /\ last.kind = "movePlaced" =>
       /\ HasId(Slot(localStorage.mealPlan.value, last.options.currentDate,
                     last.options.currentMeal), last.id)
       /\ HasId(Slot(localStorage.mealPlan.value, last.userInputs.date, last.userInputs.meal),
                last.id)
  /\ last.kind = "restartedMidMove" =>
       /\ HasId(Slot(mealPlan, last.options.currentDate, last.options.currentMeal), last.id)
       /\ HasId(Slot(mealPlan, last.userInputs.date, last.userInputs.meal), last.id)

\* C26 witness: the page was loaded again after a move to another slot was cut short
C26_RestartedAfterMoveToAnotherSlot ==
  /\ last.kind = "restartedMidMove"
  /\ <<last.userInputs.date, last.userInputs.meal>>
       # <<last.options.currentDate, last.options.currentMeal>>

\* the synonym groups the ingredient belongs to: its name contains one of the group's synonyms
GroupsOf(ingredient) ==
  {g \in 1..Len(INGREDIENT_SYNONYMS) :
     FirstIn(INGREDIENT_SYNONYMS[g].synonyms, "sIncludes", ingredient) # ""}

\* a member of the group (its key or one of its synonyms) is a substring match against the pantry
GroupInPantry(g, p) ==
  \E member \in {INGREDIENT_SYNONYMS[g].key}
                  \cup {INGREDIENT_SYNONYMS[g].synonyms[i] : i \in 1..Len(INGREDIENT_SYNONYMS[g].synonyms)} :
    \E i \in 1..Len(p) : Includes(p[i], member) \/ Includes(member, p[i])

\* the ingredient is no household staple and has no exact and no substring match in the pantry
OnlySynonymsLeft(ingredient, p) ==
  /\ checkHouseholdItem(ingredient, p) = ""
  /\ checkExactMatch(ingredient, p) = ""
  /\ checkPartialMatch(ingredient, p) = ""

\* C27: for an ingredient that is no household staple and has neither an exact nor a substring
\* match in the pantry, getIngredientAvailability returns potentiallyAvailable when the
\* ingredient belongs to a synonym group a member of which matches the pantry, and unavailable
\* otherwise.  The code does not keep this: checkSynonymMatch returns in the first pass of its
\* loop, so only the cheese group is looked at, and the pantry is never consulted.
C27_SynonymGroupDecides ==
  (/\ trial.stage = "availability"
   /\ OnlySynonymsLeft(normalizeIngredient(trial.ingredient), pantry)) =>
     trial.result.availabilityState
       = IF \E g \in GroupsOf(normalizeIngredient(trial.ingredient)) : GroupInPantry(g, pantry)
           THEN "potentiallyAvailable"
           ELSE "unavailable"

\* how many times the entry occurs in the list
Occurrences(seq, x) == Cardinality({i \in 1..Len(seq) : seq[i] = x})

\* the entries the step added to the list
AddedEntries(before, after) ==
  {after[i] : i \in {k \in 1..Len(after) : Occurrences(after, after[k]) > Occurrences(before, after[k])}}

\* the recipe-book entry with its ingredient availability and, for an ingredient search, its
\* count of missing ingredients computed against the pantry
CopyOfBookEntry(entry, mode) ==
  LET ingredients == [i \in 1..Len(entry.ingredients.items) |->
                        [entry.ingredients.items[i] EXCEPT
                           !.availability = getIngredientAvailability(entry.ingredients.items[i].name, pantry)]]
  IN  [entry EXCEPT
         !.ingredients = Arr(ingredients),
         !.numMissingIngredients =
           IF mode = "ingredientSearch" THEN Num(calculateMissingIngredients(ingredients, pantry))
           ELSE entry.numMissingIngredients]

\* the results of the mode after the step
ResultsAfter(mode) ==
  IF mode = "ingredientSearch" THEN ingredientSearchResults' ELSE browseSearchResults'

\* C28: when loadRecipeDetails processes an API recipe whose id is in the recipe book, the
\* entry added to the search results is a copy of the recipe-book entry (same servings,
\* ingredient quantities, nutrients and bookmark flag), with only the ingredient availability
\* and, for ingredient searches, numMissingIngredients recomputed; the recipe-book entry is
\* not modified.
C28_BookEntryIsReused ==
  [][last'.kind \in {"resolveDetails", "resolveLate"} =>
       /\ recipeBook' = recipeBook
       /\ \A i \in 1..Len(last'.data) :
            (isValidRecipe(last'.data[i]) /\ HasId(recipeBook, last'.data[i].id)) =>
               \E e \in AddedEntries(ResultsOf(last'.mode), ResultsAfter(last'.mode)) :
                 e.id = last'.data[i].id
       /\ \A e \in AddedEntries(ResultsOf(last'.mode), ResultsAfter(last'.mode)) :
            HasId(recipeBook, e.id) =>
               e = CopyOfBookEntry(recipeBook[IdIndex(recipeBook, e.id)], last'.mode)]_vars

\* C28 witness: an ingredient search with an egg in the pantry has returned the recipe whose
\* servings the user had raised in the recipe book
C28_AdjustedBookEntryFound ==
  /\ last.kind = "resolveDetails"
  /\ last.mode = "ingredientSearch"
  /\ pantry = <<"egg">>
  /\ \E i \in 1..Len(ingredientSearchResults) :
       /\ HasId(recipeBook, ingredientSearchResults[i].id)
       /\ ingredientSearchResults[i].servings = Num(3)

\* the array has at least one element
NonEmptyArray(value) == value # Undefined /\ value # Null /\ value.t = "arr" /\ Len(value.items) > 0

\* the recipe has everything the stated criteria ask for
CompleteRecipe(recipe) ==
  /\ Trim(recipe.title) # ""
  /\ IsFinite(recipe.id)
  /\ IsFinite(recipe.servings)
  /\ NonEmptyArray(FirstSteps(recipe))
  /\ NonEmptyArray(recipe.extendedIngredients)
  /\ \A name \in {"Protein", "Fat", "Carbohydrates"} : IsFinite(FindAmount(recipe.nutrition.nutrients, name))
  /\ IsFinite(recipe.nutrition.caloricBreakdown.percentProtein)
  /\ IsFinite(recipe.nutrition.caloricBreakdown.percentFat)
  /\ IsFinite(recipe.nutrition.caloricBreakdown.percentCarbs)

\* C29: loadRecipeDetails keeps an API recipe only if it has a non-empty title, a finite id, a
\* finite serving count, at least one instruction step, at least one ingredient, and finite
\* protein, fat and carbohydrate amounts and percentages; every other recipe is dropped.
C29_KeepsOnlyCompleteRecipes ==
  last.kind = "resolveDetails" =>
    \A i \in 1..Len(last.data) :
      HasId(ResultsOf(last.mode), last.data[i].id) => CompleteRecipe(last.data[i])

\* C30: every ingredient or browse search that is started eventually finishes and its loading
\* spinner is hidden, even when the API request never responds, because the timeout timer
\* always fires.
C30_EverySearchFinishes ==
  \A mode \in Modes : (pending[mode] > 0) ~> (pending[mode] = 0 /\ ~spinner[mode])

\* C30 witness: the timer has ended the only search in flight and the spinner is hidden
C30_TimerEndedTheSearch ==
  /\ last.kind = "timedOut"
  /\ pending[last.mode] = 0
  /\ late[last.mode] > 0
  /\ ~spinner[last.mode]

====
